---- MODULE Spec2Model ----
(***************************************************************************)
(* A model of the N-Triples parser of rdflib                               *)
(* (rdflib/plugins/parsers/ntriples.py) and of the terms it builds         *)
(* (rdflib/term_new.py).                                                   *)
(*                                                                         *)
(* A character is its code point (a natural number) and a Python string    *)
(* is a sequence of characters, so that the regular expressions, the hex   *)
(* arithmetic of unquote and chr() are computed as the code computes them. *)
(***************************************************************************)
EXTENDS Integers, Sequences, FiniteSets, TLC

\* ------------------------------------------------------------------------
\* Characters named by the patterns of ntriples.py
\* ------------------------------------------------------------------------
TAB == 9
LF == 10
CR == 13
SP == 32
QUOTE == 34
HASH == 35
HYPHEN == 45
DOT == 46
COLON == 58
LT == 60
GT == 62
AT == 64
BSLASH == 92
CARET == 94
USCORE == 95

\* module globals of ntriples.py
bufsiz == 2048
MaxCodepoint == 1114111

\* ------------------------------------------------------------------------
\* Bounds of the model
\* ------------------------------------------------------------------------
\* longest short read the source may answer a read(bufsiz) with
MaxShortRead == 2
\* number of lines before, and after, the line under study in a document
MaxPre == 1
MaxPost == 1
\* number of pieces an argument of unquote is built from
MaxPieces == 2

\* ------------------------------------------------------------------------
\* Python values
\* ------------------------------------------------------------------------
\* Python's None, for values that are otherwise strings
None == <<-1>>

\* truth value of a string-or-None ("not x" is its negation)
Truthy(x) == x # None /\ x # <<>>

Drop(s, n) == SubSeq(s, n + 1, Len(s))
Take(s, n) == SubSeq(s, 1, n)

SetMin(S) == CHOOSE x \in S : \A y \in S : x <= y

\* the element of a one-element set: {e(x) : x \in {v}} computes v once and
\* e from its value
The(S) == CHOOSE x \in S : TRUE

\* number of leading characters of s that satisfy P (a greedy character
\* class repetition "[...]*" matched at the start of s)
SpanLen(s, P(_)) ==
    LET bad == {i \in 1..Len(s) : ~P(s[i])}
    IN  IF bad = {} THEN Len(s) ELSE SetMin(bad) - 1

\* re.match found nothing
NoMatch == [end |-> -1]
Matched(m) == m.end >= 0

\* ------------------------------------------------------------------------
\* Character classes
\* ------------------------------------------------------------------------
\* [ \t]
IsWsp(c) == c \in {SP, TAB}

\* \s of a str pattern, and the characters str.isspace() accepts
\* (code points below 256)
IsSpaceChar(c) == c \in (9..13) \cup (28..32) \cup {133, 160}

\* str.isspace(): at least one character and all of them whitespace
isspace(s) == Len(s) > 0 /\ \A i \in 1..Len(s) : IsSpaceChar(s[i])

\* [^:]
NotColon(c) == c # COLON

\* [^\s"<>]
IriChar(c) == ~IsSpaceChar(c) /\ c \notin {QUOTE, LT, GT}

\* [A-Za-z] and [A-Za-z0-9]
IsAlpha(c) == c \in (65..90) \cup (97..122)
IsAlnum(c) == IsAlpha(c) \/ c \in 48..57

\* [a-z] and [a-z0-9]
IsLower(c) == c \in 97..122
IsLowerNum(c) == IsLower(c) \/ c \in 48..57

IsSafe_mut(c) == c \in {32, 33} \cup (35..91) \cup (93..127)

\* [\x20\x21\x23-\x5B\x5D-\x7E]
IsSafe(c) == c \in {32, 33} \cup (35..91) \cup (93..126)

\* [0-9A-F]
IsHex(c) == c \in (48..57) \cup (65..70)

\* int(d, 16) of one digit of [0-9A-F]
HexVal(c) == IF c \in 48..57 THEN c - 48 ELSE c - 55

\* int(h, 16) of a string of digits.  Python integers are unbounded; the
\* value is only compared with 0x10FFFF and used when it is not larger, so a
\* value that has passed 0x10FFFF is kept as it is instead of growing on
RECURSIVE HexInt(_)
HexInt(h) ==
    IF h = <<>> THEN 0
    ELSE The({IF hi > MaxCodepoint THEN hi ELSE 16 * hi + HexVal(h[Len(h)]) :
              hi \in {HexInt(Take(h, Len(h) - 1))}})


\* ------------------------------------------------------------------------
\* unquote (ntriples.py)
\* ------------------------------------------------------------------------
\* quot = {'t': '\t', 'n': '\n', 'r': '\r', '"': '"', '\\': '\\'}
quot_mut(c) ==
    CASE c = 116 -> TAB
      [] c = 110 -> CR
      [] c = 114 -> CR
      [] OTHER -> c

quot(c) ==
    CASE c = 116 -> TAB
      [] c = 110 -> LF
      [] c = 114 -> CR
      [] OTHER -> c

\* r_safe.match(string): the length of the match, 0 for no match
r_safe(string) == SpanLen(string, IsSafe)

\* r_quot.match(string)
r_quot(string) ==
    /\ Len(string) >= 2
    /\ string[1] = BSLASH
    /\ string[2] \in {116, 110, 114, QUOTE, BSLASH}

\* r_uniquot.match(string): m.end() and the digits of (u or U)
r_uniquot(string) ==
    IF /\ Len(string) >= 6
       /\ string[1] = BSLASH
       /\ string[2] = 117
       /\ \A i \in 3..6 : IsHex(string[i])
    THEN [end |-> 6, digits |-> SubSeq(string, 3, 6)]
    ELSE IF /\ Len(string) >= 10
            /\ string[1] = BSLASH
            /\ string[2] = 85
            /\ \A i \in 3..10 : IsHex(string[i])
    THEN [end |-> 10, digits |-> SubSeq(string, 3, 10)]
    ELSE NoMatch

Disallowed_mut(codepoint) == codepoint >= MaxCodepoint

\* codepoint > 0x10FFFF
Disallowed(codepoint) == codepoint > MaxCodepoint

\* one iteration of the loop of unquote on a non-empty string: what it
\* raises, or the number of characters it removes from the string and the
\* characters it appends to the result
unquote_step(string) ==
    The({IF safe > 0
         THEN [raise |-> "none", n |-> safe, out |-> Take(string, safe)]
         ELSE IF r_quot(string)
         THEN [raise |-> "none", n |-> 2, out |-> <<quot(string[2])>>]
         ELSE IF Matched(m)
         THEN The({IF Disallowed(codepoint)
                   THEN [raise |-> "Disallowed codepoint", n |-> 0, out |-> <<>>]
                   ELSE [raise |-> "none", n |-> m.end, out |-> <<codepoint>>] :
                   codepoint \in {HexInt(m.digits)}})
         ELSE IF string[1] = BSLASH
         THEN [raise |-> "Illegal escape", n |-> 0, out |-> <<>>]
         ELSE [raise |-> "Illegal literal character", n |-> 0, out |-> <<>>] :
         safe \in {r_safe(string)}, m \in {r_uniquot(string)}})

\* unquote(string) as a function: the ParseError it raises, or "none" and
\* the string it returns
RECURSIVE unquote_loop(_, _)
unquote_loop(string, result) ==
    IF string = <<>>
    THEN [raise |-> "none", val |-> result]
    ELSE The({IF st.raise # "none"
              THEN [raise |-> st.raise, val |-> <<>>]
              ELSE The({unquote_loop(rest, res) :
                        rest \in {Drop(string, st.n)}, res \in {result \o st.out}}) :
              st \in {unquote_step(string)}})

unquote(string) == unquote_loop(string, <<>>)

\* uriquote as redefined when validate is False
uriquote(uri) == uri

\* ------------------------------------------------------------------------
\* Terms (term_new.py)
\* ------------------------------------------------------------------------
URI(value) ==
    [kind |-> "URIRef", value |-> value, language |-> None, datatype |-> None]

bNode(value) ==
    [kind |-> "BNode", value |-> value, language |-> None, datatype |-> None]

\* Literal(value, lang, datatype) for a str value and at most one of lang
\* and datatype, as the parser calls it
Literal(value, lang, datatype) ==
    [kind |-> "Literal", value |-> value,
     language |-> IF Truthy(datatype) THEN None ELSE lang,
     datatype |-> IF Truthy(datatype) THEN datatype ELSE None]

\* ------------------------------------------------------------------------
\* The patterns of the grammar (ntriples.py), matched at the start of s:
\* m.end() and the groups, or NoMatch
\* ------------------------------------------------------------------------
\* r_line = ([^\r\n]*)(?:\r\n|\r|\n)
r_line(s) ==
    The({IF brk = {} THEN NoMatch
         ELSE The({[end |-> IF s[i] = CR /\ i < Len(s) /\ s[i + 1] = LF
                            THEN i + 1 ELSE i,
                    group |-> Take(s, i - 1)] : i \in {SetMin(brk)}}) :
         brk \in {{i \in 1..Len(s) : s[i] \in {CR, LF}}}})

\* r_wspace = [ \t]*
r_wspace(s) == [end |-> SpanLen(s, IsWsp)]

\* r_wspaces = [ \t]+
r_wspaces(s) ==
    The({IF a >= 1 THEN [end |-> a] ELSE NoMatch : a \in {SpanLen(s, IsWsp)}})

\* r_tail = [ \t]*\.[ \t]*
r_tail(s) ==
    The({IF a < Len(s) /\ s[a + 1] = DOT
         THEN [end |-> a + 1 + SpanLen(Drop(s, a + 1), IsWsp)]
         ELSE NoMatch : a \in {SpanLen(s, IsWsp)}})

\* r_uriref = <([^:]+:[^\s"<>]+)>
r_uriref(s) ==
    IF Len(s) = 0 \/ s[1] # LT THEN NoMatch
    ELSE The({The({IF /\ a >= 1
                      /\ a + 2 <= Len(s)
                      /\ b >= 1
                      /\ a + b + 3 <= Len(s)
                      /\ s[a + b + 3] = GT
                   THEN [end |-> a + b + 3, group |-> SubSeq(s, 2, a + b + 2)]
                   ELSE NoMatch : b \in {SpanLen(Drop(s, a + 2), IriChar)}}) :
              a \in {SpanLen(Drop(s, 1), NotColon)}})

\* r_nodeid = _:([A-Za-z][A-Za-z0-9]*)
r_nodeid(s) ==
    IF /\ Len(s) >= 3
       /\ s[1] = USCORE
       /\ s[2] = COLON
       /\ IsAlpha(s[3])
    THEN The({[end |-> e, group |-> SubSeq(s, 3, e)] :
              e \in {2 + SpanLen(Drop(s, 2), IsAlnum)}})
    ELSE NoMatch

\* the index of the quote that closes the body [^"\\]*(?:\\.[^"\\]*)* which
\* is being matched from index i on, 0 if there is none
RECURSIVE LiteralClose(_, _)
LiteralClose(s, i) ==
    IF i > Len(s) THEN 0
    ELSE IF s[i] = QUOTE THEN i
    ELSE IF s[i] = BSLASH
    THEN IF i + 1 <= Len(s) /\ s[i + 1] # LF
         THEN LiteralClose(s, i + 2) ELSE 0
    ELSE LiteralClose(s, i + 1)

\* the subtags (?:-[a-z0-9]+)* matched at the start of s: their length
RECURSIVE SubtagsLen(_)
SubtagsLen(s) ==
    IF Len(s) >= 2 /\ s[1] = HYPHEN /\ IsLowerNum(s[2])
    THEN The({n + SubtagsLen(Drop(s, n)) :
              n \in {1 + SpanLen(Drop(s, 1), IsLowerNum)}})
    ELSE 0

\* litinfo = (?:@([a-z]+(?:-[a-z0-9]+)*)|\^\^<uriref>)? : the alternation
\* matches one marker at most
litinfo(s) ==
    IF Len(s) >= 2 /\ s[1] = AT /\ IsLower(s[2])
    THEN The({The({[end |-> 1 + n, lang |-> SubSeq(s, 2, 1 + n), dtype |-> None] :
                   n \in {a + SubtagsLen(Drop(s, 1 + a))}}) :
              a \in {SpanLen(Drop(s, 1), IsLower)}})
    ELSE IF Len(s) >= 2 /\ s[1] = CARET /\ s[2] = CARET
    THEN The({IF Matched(m)
              THEN [end |-> 2 + m.end, lang |-> None, dtype |-> m.group]
              ELSE [end |-> 0, lang |-> None, dtype |-> None] :
              m \in {r_uriref(Drop(s, 2))}})
    ELSE [end |-> 0, lang |-> None, dtype |-> None]

\* r_literal = literal + litinfo
r_literal(s) ==
    IF Len(s) = 0 \/ s[1] # QUOTE THEN NoMatch
    ELSE The({IF q = 0 THEN NoMatch
              ELSE The({[end |-> q + info.end, lit |-> SubSeq(s, 2, q - 1),
                         lang |-> info.lang, dtype |-> info.dtype] :
                        info \in {litinfo(Drop(s, q))}}) :
              q \in {LiteralClose(s, 2)}})

\* ------------------------------------------------------------------------
\* NTriplesParser: the grammar rules.  A rule applied to self.line gives
\* res = "term" (a term was built), "False" (the rule does not apply) or
\* "raise" (ParseError with that reason), and the self.line it leaves
\* ------------------------------------------------------------------------
NoTerm == [kind |-> "none", value |-> <<>>, language |-> None, datatype |-> None]

Built(term, rest) == [res |-> "term", term |-> term, line |-> rest, reason |-> "none"]
NotApplicable(rest) == [res |-> "False", term |-> NoTerm, line |-> rest, reason |-> "none"]
Raise(reason, rest) == [res |-> "raise", term |-> NoTerm, line |-> rest, reason |-> reason]

\* self.line.startswith(token) for a token of one character
peek(l, token) == Len(l) >= 1 /\ l[1] = token

uriref(l) ==
    IF ~peek(l, LT) THEN NotApplicable(l)
    ELSE The({IF ~Matched(m) THEN Raise("Failed to eat", l)
              ELSE The({IF uri.raise # "none"
                        THEN Raise(uri.raise, Drop(l, m.end))
                        ELSE Built(URI(uriquote(uri.val)), Drop(l, m.end)) :
                        uri \in {unquote(m.group)}}) :
              m \in {r_uriref(l)}})

nodeid(l) ==
    IF ~peek(l, USCORE) THEN NotApplicable(l)
    ELSE The({IF ~Matched(m) THEN Raise("Failed to eat", l)
              ELSE Built(bNode(m.group), Drop(l, m.end)) :
              m \in {r_nodeid(l)}})

literal(l) ==
    IF ~peek(l, QUOTE) THEN NotApplicable(l)
    ELSE The({IF ~Matched(m) THEN Raise("Failed to eat", l)
              ELSE The({IF Truthy(lang) /\ Truthy(dtype)
                        THEN Raise("Can't have both a language and a datatype",
                                   Drop(l, m.end))
                        ELSE IF lit.raise # "none"
                        THEN Raise(lit.raise, Drop(l, m.end))
                        ELSE Built(Literal(lit.val, lang, dtype), Drop(l, m.end)) :
                        lang \in {IF Truthy(m.lang) THEN m.lang ELSE None},
                        dtype \in {IF Truthy(m.dtype) THEN m.dtype ELSE None},
                        lit \in {unquote(m.lit)}}) :
              m \in {r_literal(l)}})

\* subj = self.uriref() or self.nodeid()
subject(l) ==
    The({IF u.res # "False" THEN u
         ELSE IF n.res # "False" THEN n
         ELSE Raise("Subject must be uriref or nodeID", l) :
         u \in {uriref(l)}, n \in {nodeid(l)}})

predicate_mut(l) ==
    The({IF u.res # "False" THEN u
         ELSE IF n.res # "False" THEN n
         ELSE Raise("Predicate must be uriref", l) :
         u \in {uriref(l)}, n \in {nodeid(l)}})

predicate(l) ==
    The({IF u.res # "False" THEN u
         ELSE Raise("Predicate must be uriref", l) :
         u \in {uriref(l)}})

\* objt = self.uriref() or self.nodeid() or self.literal()
object(l) ==
    The({IF u.res # "False" THEN u
         ELSE IF n.res # "False" THEN n
         ELSE IF lt.res # "False" THEN lt
         ELSE Raise("Unrecognised object type", l) :
         u \in {uriref(l)}, n \in {nodeid(l)}, lt \in {literal(l)}})

\* self.eat(pattern) for a pattern matched as m: the line it leaves
eat(l, m) ==
    IF Matched(m) THEN [raise |-> "none", line |-> Drop(l, m.end)]
    ELSE [raise |-> "Failed to eat", line |-> l]

\* the separator parseline eats after the subject and after the predicate
separator_mut(l) == r_wspace(l)

separator(l) == r_wspaces(l)

\* parseline on self.line = l0: outcome "skip" (blank or comment line),
\* "triple" (sink.triple is called with the triple) or "raise", and the
\* self.line it leaves
Skipped(rest) == [outcome |-> "skip", line |-> rest, reason |-> "none", triple |-> <<>>]
Emitted(t, rest) == [outcome |-> "triple", line |-> rest, reason |-> "none", triple |-> t]
Failed(reason, rest) == [outcome |-> "raise", line |-> rest, reason |-> reason, triple |-> <<>>]

\* parseline after the subject, after the predicate and after the object
after_object(subj, pred, objt) ==
    IF objt.res = "raise" THEN Failed(objt.reason, objt.line)
    ELSE The({IF e3.raise # "none" THEN Failed(e3.raise, e3.line)
              ELSE IF e3.line # <<>> THEN Failed("Trailing garbage", e3.line)
              ELSE Emitted(<<subj.term, pred.term, objt.term>>, e3.line) :
              e3 \in {eat(objt.line, r_tail(objt.line))}})

after_predicate(subj, pred) ==
    IF pred.res = "raise" THEN Failed(pred.reason, pred.line)
    ELSE The({IF e2.raise # "none" THEN Failed(e2.raise, e2.line)
              ELSE The({after_object(subj, pred, objt) :
                        objt \in {object(e2.line)}}) :
              e2 \in {eat(pred.line, separator(pred.line))}})

after_subject(subj) ==
    IF subj.res = "raise" THEN Failed(subj.reason, subj.line)
    ELSE The({IF e1.raise # "none" THEN Failed(e1.raise, e1.line)
              ELSE The({after_predicate(subj, pred) :
                        pred \in {predicate(e1.line)}}) :
              e1 \in {eat(subj.line, separator(subj.line))}})

parseline(l0) ==
    The({IF l1 = <<>> \/ peek(l1, HASH) THEN Skipped(l1)
         ELSE The({after_subject(subj) : subj \in {subject(l1)}}) :
         l1 \in {eat(l0, r_wspace(l0)).line}})

\* ------------------------------------------------------------------------
\* Inputs of parse: a document is a sequence of terminated lines followed
\* by a rest that has no terminator.  Every line is written down with what
\* N-Triples says about it: kind "stmt" with its three terms, "blank"
\* (blank or comment line) or "bad" (not a statement)
\* ------------------------------------------------------------------------
IriS == <<60, 115, 58, 97, 62>>
IriP == <<60, 112, 58, 97, 62>>
IriO == <<60, 111, 58, 97, 62>>
IriD == <<60, 100, 58, 116, 62>>
NodeX == <<95, 58, 120>>
NodeY == <<95, 58, 121, 49>>
LitX == <<34, 120, 34>>
LitEmpty == <<34, 34>>
LitTab == <<34, 97, 92, 116, 34>>
LitBadEsc == <<34, 92, 113, 34>>
LangEn == <<64, 101, 110>>
DtD == <<94, 94>> \o IriD

TermS == URI(<<115, 58, 97>>)
TermP == URI(<<112, 58, 97>>)
TermO == URI(<<111, 58, 97>>)

Stmt(chars, s, p, o) == [chars |-> chars, kind |-> "stmt", triple |-> <<s, p, o>>]
Blank(chars) == [chars |-> chars, kind |-> "blank", triple |-> <<>>]
Bad(chars) == [chars |-> chars, kind |-> "bad", triple |-> <<>>]

StmtIri == Stmt(IriS \o <<SP>> \o IriP \o <<SP>> \o IriO \o <<SP, DOT>>,
                TermS, TermP, TermO)
StmtNodes == Stmt(NodeX \o <<SP>> \o IriP \o <<SP>> \o NodeY \o <<SP, DOT>>,
                  bNode(<<120>>), TermP, bNode(<<121, 49>>))
StmtSpaced == Stmt(<<SP, TAB>> \o IriS \o <<TAB, SP>> \o IriP \o <<SP, SP>>
                     \o LitX \o <<TAB, DOT, SP>>,
                   TermS, TermP, Literal(<<120>>, None, None))
StmtLang == Stmt(IriS \o <<SP>> \o IriP \o <<SP>> \o LitX \o LangEn \o <<DOT>>,
                 TermS, TermP, Literal(<<120>>, <<101, 110>>, None))
StmtTyped == Stmt(IriS \o <<SP>> \o IriP \o <<SP>> \o LitX \o DtD \o <<SP, DOT>>,
                  TermS, TermP, Literal(<<120>>, None, <<100, 58, 116>>))
StmtEscape == Stmt(IriS \o <<SP>> \o IriP \o <<SP>> \o LitTab \o <<SP, DOT>>,
                   TermS, TermP, Literal(<<97, TAB>>, None, None))
StmtEmptyLit == Stmt(IriS \o <<SP>> \o IriP \o <<SP>> \o LitEmpty \o <<SP, DOT>>,
                     TermS, TermP, Literal(<<>>, None, None))

BlankEmpty == Blank(<<>>)
BlankSpaces == Blank(<<SP, TAB>>)
Comment == Blank(<<HASH, SP, 99>>)
CommentIndented == Blank(<<SP, HASH>>)

BadNoSep1 == Bad(IriS \o IriP \o <<SP>> \o IriO \o <<SP, DOT>>)
BadNoSep2 == Bad(IriS \o <<SP>> \o IriP \o IriO \o <<SP, DOT>>)
BadNoDot == Bad(IriS \o <<SP>> \o IriP \o <<SP>> \o IriO)
BadGarbage == Bad(IriS \o <<SP>> \o IriP \o <<SP>> \o IriO \o <<SP, DOT, SP, 120>>)
BadLitSubject == Bad(LitX \o <<SP>> \o IriP \o <<SP>> \o IriO \o <<SP, DOT>>)
BadNodePredicate == Bad(IriS \o <<SP>> \o NodeX \o <<SP>> \o IriO \o <<SP, DOT>>)
BadLitPredicate == Bad(IriS \o <<SP>> \o LitX \o <<SP>> \o IriO \o <<SP, DOT>>)
BadLangAndType == Bad(IriS \o <<SP>> \o IriP \o <<SP>> \o LitX \o LangEn \o DtD
                        \o <<SP, DOT>>)
BadTypeAndLang == Bad(IriS \o <<SP>> \o IriP \o <<SP>> \o LitX \o DtD \o LangEn
                        \o <<SP, DOT>>)
BadEscape == Bad(IriS \o <<SP>> \o IriP \o <<SP>> \o LitBadEsc \o <<SP, DOT>>)
BadObject == Bad(IriS \o <<SP>> \o IriP \o <<SP>> \o <<120>> \o <<SP, DOT>>)
BadWord == Bad(<<120>>)

StmtLines == {StmtIri, StmtNodes, StmtSpaced, StmtLang, StmtTyped, StmtEscape,
              StmtEmptyLit}
BlankLines == {BlankEmpty, BlankSpaces, Comment, CommentIndented}
BadLines == {BadNoSep1, BadNoSep2, BadNoDot, BadGarbage, BadLitSubject,
             BadNodePredicate, BadLitPredicate, BadLangAndType, BadTypeAndLang,
             BadEscape, BadObject, BadWord}

\* a line with its terminator
Ended(l, t) == [chars |-> l.chars, kind |-> l.kind, triple |-> l.triple, term |-> t]

\* the line under study: every line ended by LF, some ended by CR and CRLF
FocusLines ==
    {Ended(l, <<LF>>) : l \in StmtLines \cup BlankLines \cup BadLines}
    \cup {Ended(l, t) : l \in {StmtIri, BlankEmpty, BadNoDot},
                        t \in {<<CR>>, <<CR, LF>>}}

\* the lines before it and the lines after it
LinesBefore == {Ended(StmtNodes, <<CR, LF>>), Ended(Comment, <<CR>>)}

LinesAfter == {Ended(StmtIri, <<LF>>), Ended(BadWord, <<LF>>)}

\* what follows the last terminator: nothing, whitespace, a statement
Rests == {<<>>, <<SP, 12>>, StmtIri.chars}

SeqsUpTo(S, n) == UNION {[1..k -> S] : k \in 0..n}

\* the documents: lines only, lines and an unterminated rest, a rest only
Docs ==
    {[lines |-> pre \o <<f>> \o post, rest |-> <<>>] :
        pre \in SeqsUpTo(LinesBefore, MaxPre), f \in FocusLines,
        post \in SeqsUpTo(LinesAfter, MaxPost)}
    \cup {[lines |-> pre \o <<f>>, rest |-> r] :
        pre \in SeqsUpTo(LinesBefore, MaxPre), f \in FocusLines, r \in Rests}
    \cup {[lines |-> <<>>, rest |-> r] : r \in Rests}

NoDoc == [lines |-> <<>>, rest |-> <<>>]

\* the text of a document
RECURSIVE LinesText(_)
LinesText(ls) ==
    IF ls = <<>> THEN <<>>
    ELSE Head(ls).chars \o Head(ls).term \o LinesText(Tail(ls))

TextOf(d) == LinesText(d.lines) \o d.rest

\* the arguments of unquote: concatenations of safe characters, unsafe
\* characters, escapes and broken escapes
UqPieces ==
    {<<97>>, <<233>>, <<127>>, <<TAB>>, <<QUOTE>>,
     <<BSLASH, 116>>, <<BSLASH, 110>>, <<BSLASH, 114>>, <<BSLASH, QUOTE>>,
     <<BSLASH, BSLASH>>,
     <<BSLASH, 117, 48, 48, 52, 49>>,
     <<BSLASH, 117, 48, 48, 101, 57>>,
     <<BSLASH, 85, 48, 48, 49, 48, 70, 70, 70, 70>>,
     <<BSLASH, 85, 48, 48, 49, 49, 48, 48, 48, 48>>,
     <<BSLASH, 113>>, <<BSLASH>>, <<BSLASH, 117, 49, 50>>}

RECURSIVE Concat(_)
Concat(ss) == IF ss = <<>> THEN <<>> ELSE Head(ss) \o Concat(Tail(ss))

UqInputs == {Concat(ps) : ps \in SeqsUpTo(UqPieces, MaxPieces)}

\* ------------------------------------------------------------------------
\* Python values given to Literal() (term_new.py): a str, or a native int,
\* float (a number of tenths, or nan), bool or date
\* ------------------------------------------------------------------------
PyStr(chars) == [type |-> "str", chars |-> chars]
PyInt(n) == [type |-> "int", n |-> n]
PyFloat(tenths) == [type |-> "float", tenths |-> tenths, nan |-> FALSE]
PyNaN == [type |-> "float", tenths |-> 0, nan |-> TRUE]
PyBool(b) == [type |-> "bool", b |-> b]
PyDate(y, m, d) == [type |-> "date", y |-> y, m |-> m, d |-> d]

\* the decimal digits of n >= 0
RECURSIVE Digits(_)
Digits(n) ==
    IF n < 10 THEN <<48 + n>> ELSE Digits(n \div 10) \o <<48 + (n % 10)>>

\* n >= 0 in at least w digits, zero-padded
Padded(n, w) ==
    The({[i \in 1..(w - Len(ds)) |-> 48] \o ds : ds \in {Digits(n)}})

\* date.isoformat()
isoformat(v) ==
    Padded(v.y, 4) \o <<HYPHEN>> \o Padded(v.m, 2) \o <<HYPHEN>> \o Padded(v.d, 2)

\* str(value)
str(v) ==
    CASE v.type = "str" -> v.chars
      [] v.type = "int" ->
            IF v.n < 0 THEN <<HYPHEN>> \o Digits(0 - v.n) ELSE Digits(v.n)
      [] v.type = "float" ->
            IF v.nan THEN <<110, 97, 110>>
            ELSE Digits(v.tenths \div 10) \o <<DOT>> \o Digits(v.tenths % 10)
      [] v.type = "bool" ->
            IF v.b THEN <<84, 114, 117, 101>> ELSE <<70, 97, 108, 115, 101>>
      [] v.type = "date" -> isoformat(v)

\* str.lower() on ASCII
lower(s) == [i \in 1..Len(s) |-> IF s[i] \in 65..90 THEN s[i] + 32 ELSE s[i]]

XSD_PFX ==
    <<104, 116, 116, 112, 58, 47, 47, 119, 119, 119, 46, 119, 51, 46, 111,
      114, 103, 47, 50, 48, 48, 49, 47, 88, 77, 76, 83, 99, 104, 101, 109,
      97, 35>>
XSD_integer == XSD_PFX \o <<105, 110, 116, 101, 103, 101, 114>>
XSD_float == XSD_PFX \o <<102, 108, 111, 97, 116>>
XSD_boolean == XSD_PFX \o <<98, 111, 111, 108, 101, 97, 110>>
XSD_date == XSD_PFX \o <<100, 97, 116, 101>>
XSD_string == XSD_PFX \o <<115, 116, 114, 105, 110, 103>>

\* _castPythonToLiteral(obj) with _PythonToXSD: the lexical value and the
\* datatype URI, or None
castPythonToLiteral(obj) ==
    CASE obj.type = "str" -> [value |-> obj, datatype |-> None]
      [] obj.type = "float" -> [value |-> obj, datatype |-> XSD_float]
      [] obj.type = "bool" ->
            [value |-> PyStr(lower(str(obj))), datatype |-> XSD_boolean]
      [] obj.type = "int" -> [value |-> obj, datatype |-> XSD_integer]
      [] obj.type = "date" ->
            [value |-> PyStr(isoformat(obj)), datatype |-> XSD_date]

\* ------------------------------------------------------------------------
\* The conversion functions of XSDToPython: the Python value, or ValueError
\* ------------------------------------------------------------------------
ValueError == [type |-> "ValueError"]

\* s without its leading and trailing whitespace
strip(s) ==
    The({The({SubSeq(s, a + 1, Len(s) - b) :
              b \in {IF a = Len(s) THEN 0
                     ELSE SpanLen([i \in 1..Len(s) |-> s[Len(s) + 1 - i]],
                                  IsSpaceChar)}}) :
         a \in {SpanLen(s, IsSpaceChar)}})

IsDigit(c) == c \in 48..57

\* digits, with single underscores between them allowed
IsDigitString(s) ==
    /\ s # <<>>
    /\ IsDigit(s[1])
    /\ IsDigit(s[Len(s)])
    /\ \A i \in 1..Len(s) : IsDigit(s[i]) \/ s[i] = USCORE
    /\ \A i \in 1..(Len(s) - 1) : ~(s[i] = USCORE /\ s[i + 1] = USCORE)

\* the number the digits of s denote, underscores skipped
RECURSIVE DigitsValue(_)
DigitsValue(s) ==
    IF s = <<>> THEN 0
    ELSE The({IF c = USCORE THEN DigitsValue(Take(s, Len(s) - 1))
              ELSE 10 * DigitsValue(Take(s, Len(s) - 1)) + (c - 48) :
              c \in {s[Len(s)]}})

\* s as a sign and the rest
Signed(s) ==
    IF s # <<>> /\ s[1] \in {43, HYPHEN}
    THEN [sign |-> IF s[1] = HYPHEN THEN 0 - 1 ELSE 1, rest |-> Tail(s)]
    ELSE [sign |-> 1, rest |-> s]

\* int(s)
int(s) ==
    The({IF IsDigitString(t.rest) THEN PyInt(t.sign * DigitsValue(t.rest))
         ELSE ValueError : t \in {Signed(strip(s))}})

\* float(s), for the strings without an exponent or an infinity whose
\* digits after the first one behind the point are zeros
float(s) ==
    The({The({IF lower(t.rest) = <<110, 97, 110>> THEN PyNaN
              ELSE IF dots = {}
              THEN IF IsDigitString(t.rest)
                   THEN PyFloat(t.sign * 10 * DigitsValue(t.rest))
                   ELSE ValueError
              ELSE The({IF /\ whole = <<>> \/ IsDigitString(whole)
                           /\ frac = <<>> \/ IsDigitString(frac)
                           /\ whole # <<>> \/ frac # <<>>
                        THEN PyFloat(t.sign * (10 * DigitsValue(whole)
                                     + IF frac = <<>> THEN 0 ELSE frac[1] - 48))
                        ELSE ValueError :
                        whole \in {Take(t.rest, SetMin(dots) - 1)},
                        frac \in {Drop(t.rest, SetMin(dots))}}) :
              dots \in {{i \in 1..Len(t.rest) : t.rest[i] = DOT}}}) :
         t \in {Signed(strip(s))}})

\* bool(s)
bool(s) == PyBool(s # <<>>)

IsLeap(y) == (y % 4 = 0 /\ y % 100 # 0) \/ y % 400 = 0

DaysIn(y, m) ==
    IF m = 2 THEN (IF IsLeap(y) THEN 29 ELSE 28)
    ELSE IF m \in {4, 6, 9, 11} THEN 30 ELSE 31

\* _strToDate(v): strptime(v, "%Y-%m-%d") for four digits of year and one or
\* two digits of month and of day
strToDate(v) ==
    The({IF /\ Cardinality(hy) = 2
            /\ 5 \in hy
            /\ \A i \in (1..Len(v)) \ hy : IsDigit(v[i])
         THEN The({The({IF /\ Len(ms) \in 1..2
                           /\ Len(ds) \in 1..2
                           /\ DigitsValue(ms) \in 1..12
                           /\ DigitsValue(ds) \in 1..DaysIn(DigitsValue(Take(v, 4)),
                                                            DigitsValue(ms))
                        THEN PyDate(DigitsValue(Take(v, 4)), DigitsValue(ms),
                                    DigitsValue(ds))
                        ELSE ValueError :
                        ms \in {SubSeq(v, 6, h2 - 1)}, ds \in {Drop(v, h2)}}) :
                   h2 \in {CHOOSE h \in hy : h # 5}})
         ELSE ValueError :
         hy \in {{i \in 1..Len(v) : v[i] = HYPHEN}}})

\* _toPythonMapping.get(datatype, None) applied to the lexical form; "self"
\* when the datatype has no conversion function
convFunc(datatype, s) ==
    CASE datatype = XSD_integer -> int(s)
      [] datatype = XSD_float -> float(s)
      [] datatype = XSD_boolean -> bool(s)
      [] datatype = XSD_date -> strToDate(s)
      [] OTHER -> [type |-> "self"]

\* ------------------------------------------------------------------------
\* Literal (term_new.py)
\* ------------------------------------------------------------------------
Literal_init_mut(value, lang, datatype) ==
    IF Truthy(lang) /\ Truthy(datatype)
    THEN [raise |-> "TypeError", term |-> NoTerm]
    ELSE The({[raise |-> "none",
               term |-> [kind |-> "Literal",
                         value |-> str(c.value),
                         language |-> lang,
                         datatype |-> c.datatype]] :
              c \in {IF Truthy(datatype)
                     THEN [value |-> value, datatype |-> datatype]
                     ELSE castPythonToLiteral(value)}})

\* Literal(value, lang, datatype) for any value, lang and datatype a str or
\* None: TypeError, or the literal
Literal_init(value, lang, datatype) ==
    IF lang # None /\ datatype # None
    THEN [raise |-> "TypeError", term |-> NoTerm]
    ELSE The({[raise |-> "none",
               term |-> [kind |-> "Literal",
                         value |-> str(c.value),
                         language |-> IF Truthy(c.datatype) THEN None ELSE lang,
                         datatype |-> c.datatype]] :
              c \in {IF Truthy(datatype)
                     THEN [value |-> value, datatype |-> datatype]
                     ELSE castPythonToLiteral(value)}})

\* Literal.toPython and Literal._toCompareValue: the Python value of the
\* literal where its datatype has a conversion that succeeds, else its
\* string, alone or with its datatype and language
toCompareValue(self) ==
    The({IF rt.type \in {"self", "ValueError"}
         THEN IF self.language = None /\ self.datatype = None
              THEN PyStr(self.value)
              ELSE [type |-> "tuple", chars |-> self.value,
                    datatype |-> self.datatype, language |-> self.language]
         ELSE rt :
         rt \in {convFunc(self.datatype, self.value)}})

\* a Python number in tenths
Tenths(x) ==
    CASE x.type = "int" -> 10 * x.n
      [] x.type = "float" -> x.tenths
      [] x.type = "bool" -> IF x.b THEN 10 ELSE 0

IsNumber(x) == x.type \in {"int", "float", "bool"}

\* x == y in Python for str, int, float, bool, date and tuple values
PyEq(x, y) ==
    IF IsNumber(x) /\ IsNumber(y)
    THEN /\ ~(x.type = "float" /\ x.nan)
         /\ ~(y.type = "float" /\ y.nan)
         /\ Tenths(x) = Tenths(y)
    ELSE x.type = y.type /\ x = y

\* Literal.__eq__(self, other) for a Literal other
Literal_eq(self, other) ==
    The({IF self.language = other.language /\ self.datatype = other.datatype
         THEN PyEq(self_py, other_py)
         ELSE IF /\ self_py.type \in {"int", "float"}
                 /\ other_py.type \in {"int", "float"}
         THEN PyEq(self_py, other_py)
         ELSE FALSE :
         self_py \in {toCompareValue(self)}, other_py \in {toCompareValue(other)}})

\* URIRef.__eq__, BNode.__eq__ and Literal.__eq__ between terms
Term_eq(self, other) ==
    IF self.kind # other.kind THEN FALSE
    ELSE IF self.kind = "Literal" THEN Literal_eq(self, other)
    ELSE self.value = other.value

\* a ^ b on hash values, each the set of the component hashes it is the
\* exclusive or of: equal components cancel
Xor(a, b) == (a \ b) \cup (b \ a)

\* hash(x) of Python for a str or None: one component of its own per value
PyHash(x) ==
    IF x = None THEN {[of |-> "None", chars |-> <<>>]}
    ELSE {[of |-> "str", chars |-> x]}

\* int(self.md5_term_hash(), 16) of URIRef (suffix "U") and BNode ("B"), and
\* of the datatype of a literal, a URIRef or None
md5_hash(x, suffix) ==
    IF x = None THEN PyHash(None)
    ELSE {[of |-> "md5", chars |-> x \o suffix]}

\* Literal.__hash__
Literal_hash(self) ==
    Xor(Xor(PyHash(self.value), PyHash(self.language)),
        md5_hash(self.datatype, <<85>>))

\* URIRef.__hash__, BNode.__hash__ and Literal.__hash__
Term_hash(self) ==
    CASE self.kind = "URIRef" -> md5_hash(self.value, <<85>>)
      [] self.kind = "BNode" -> md5_hash(self.value, <<66>>)
      [] self.kind = "Literal" -> Literal_hash(self)

\* s.replace(c, by) for a character c
RECURSIVE replace(_, _, _)
replace(s, c, by) ==
    IF s = <<>> THEN <<>>
    ELSE (IF s[1] = c THEN by ELSE <<s[1]>>) \o replace(Tail(s), c, by)

\* Literal._quote_encode
quote_encode(self) ==
    <<QUOTE>>
    \o replace(replace(replace(self.value, BSLASH, <<BSLASH, BSLASH>>),
                       LF, <<BSLASH, 110>>),
               QUOTE, <<BSLASH, QUOTE>>)
    \o <<QUOTE>>

\* Literal._literal_n3() with use_plain False and no qname_callback
literal_n3(self) ==
    The({IF Truthy(self.language)
         THEN IF self.datatype # None
              THEN encoded \o <<AT>> \o self.language \o <<CARET, CARET>> \o quoted_dt
              ELSE encoded \o <<AT>> \o self.language
         ELSE IF self.datatype # None
         THEN encoded \o <<CARET, CARET>> \o quoted_dt
         ELSE encoded :
         encoded \in {quote_encode(self)},
         quoted_dt \in {<<LT>> \o self.datatype \o <<GT>>}})

\* URIRef.n3, BNode.n3 and Literal.n3
n3(self) ==
    CASE self.kind = "URIRef" -> <<LT>> \o self.value \o <<GT>>
      [] self.kind = "BNode" -> <<USCORE, COLON>> \o self.value
      [] self.kind = "Literal" -> literal_n3(self)

\* ------------------------------------------------------------------------
\* State
\* ------------------------------------------------------------------------
VARIABLES
    pc,          \* where parse is: "idle", "readline", "parseline", "done"
                 \* (parse has returned the sink), "error" (parse has raised)
    file_input,  \* the source: its text and the number of characters read
    buffer,      \* self.buffer
    line,        \* self.line
    sink,        \* self.sink: Sink.length and the triples passed to triple()
    err,         \* the ParseError parse has raised
    doc,         \* the document file_input was made from
    raw_line,    \* the last line readline has returned, as it returned it
    returned,    \* the lines readline has returned so far
    outcome,     \* how the last call of parseline ended
    uq_pc,       \* where unquote is: "idle", "loop", "returned", "raised"
    uq_input,    \* the argument of unquote
    uq_string,   \* its local variable string
    uq_result,   \* "".join(result)
    uq_err       \* the ParseError unquote has raised

parserVars == <<pc, file_input, buffer, line, sink, err, doc, raw_line,
                returned, outcome>>
unquoteVars == <<uq_pc, uq_input, uq_string, uq_result, uq_err>>

VARIABLES
    t_pc,        \* where the term under construction is: "idle", "constructed",
                 \* "raised" (TypeError), "serialized" (n3() has returned),
                 \* "reparsed" (a line with that text as object was parsed)
    t_args,      \* the arguments of the constructor
    t_term,      \* the term constructed
    t_n3,        \* what its n3() returned
    t_back       \* what parseline made of the line with t_n3 as its object

termVars == <<t_pc, t_args, t_term, t_n3, t_back>>

VARIABLES
    eq_pc,       \* where the comparison is: "idle", "self" (one literal made),
                 \* "both" (two literals made), "compared"
    eq_self,     \* the literal on the left of ==
    eq_other,    \* the literal on the right of ==
    eq_result    \* what __eq__ returned

eqVars == <<eq_pc, eq_self, eq_other, eq_result>>

VARIABLES
    bn_pc,       \* where each thread is in BNode(): "idle", "acquire", "next"
                 \* (holds the lock), "yield" (inside the generator),
                 \* "release", "format", "raised"
    bn_def,      \* whether the def of BNode.__init__ has been executed
    prefix,      \* its default argument _prefix
    sn_gen,      \* its default argument _sn_gen: the generator's i, whether
                 \* it has started and whether it is running
    bNodeLock,   \* the RLock: its owner (0 for none) and its count
    node_id,     \* each thread's local variable node_id
    labels,      \* what the constructions have made so far: the thread, its
                 \* node_id and the value of the blank node
    calls        \* the number of calls of BNode() so far

bnodeVars == <<bn_pc, bn_def, prefix, sn_gen, bNodeLock, node_id, labels, calls>>

VARIABLES
    add_pc,      \* where the store is: "none" (no store), "ready", "add" (add
                 \* has ended), "addN" (in the loop of addN), "returned",
                 \* "raised"
    flags,       \* context_aware and formula_aware of the store's class
    events,      \* the events given to self.dispatcher.dispatch, in order
    add_args,    \* the arguments of the last call of add
    add_raised,  \* whether the last call of add raised
    quads,       \* the argument of addN
    forwarded    \* the number of entries of quads addN has passed to add

addVars == <<add_pc, flags, events, add_args, add_raised, quads, forwarded>>

VARIABLES
    tc_pc,       \* where the generator triples_choices returned is: "none",
                 \* "created" (not started), "loop", "done", "raised"
    tc_triple,   \* its argument triple
    tc_context,  \* its argument context
    tc_pos,      \* the position whose list it iterates over: 1, 2 or 3
    tc_alts,     \* what it iterates over
    tc_next,     \* the number of alternatives it has taken
    tc_inner,    \* what is left of the results of its current call of triples
    yielded,     \* what it has yielded so far
    triples_calls \* the arguments of the calls of self.triples so far

choiceVars == <<tc_pc, tc_triple, tc_context, tc_pos, tc_alts, tc_next,
                tc_inner, yielded, triples_calls>>

VARIABLES
    rm_pc,       \* "none" before there is a store, then "ready"
    rm_added,    \* the (triple, context) pairs given to store.add so far
    rm_calls     \* the calls of store.remove so far: their arguments, what
                 \* add had been given before and the events they dispatched

removeVars == <<rm_pc, rm_added, rm_calls>>

VARIABLES
    iri_pc,      \* "idle", "line" (a line is at hand), "parsed"
    iri_line,    \* the line parseline is given
    iri_subj,    \* what self.subject() has returned or raised
    iri_result   \* what parseline has done

iriVars == <<iri_pc, iri_line, iri_subj, iri_result>>

vars == <<parserVars, unquoteVars, termVars, eqVars, bnodeVars, addVars,
          choiceVars, removeVars, iriVars>>

\* the variables an operation of the parser, of unquote, of a term, of a
\* comparison, of BNode(), of Store.add and addN, of Store.triples_choices,
\* of Store.remove, of parseline on a line of its own leaves alone
notParserVars == <<unquoteVars, termVars, eqVars, bnodeVars, addVars,
    choiceVars, removeVars, iriVars>>
notUnquoteVars == <<parserVars, termVars, eqVars, bnodeVars, addVars,
    choiceVars, removeVars, iriVars>>
notTermVars == <<parserVars, unquoteVars, eqVars, bnodeVars, addVars,
    choiceVars, removeVars, iriVars>>
notEqVars == <<parserVars, unquoteVars, termVars, bnodeVars, addVars,
    choiceVars, removeVars, iriVars>>
notBNodeVars == <<parserVars, unquoteVars, termVars, eqVars, addVars,
    choiceVars, removeVars, iriVars>>
notAddVars == <<parserVars, unquoteVars, termVars, eqVars, bnodeVars,
    choiceVars, removeVars, iriVars>>
notChoiceVars == <<parserVars, unquoteVars, termVars, eqVars, bnodeVars, addVars,
    removeVars, iriVars>>
notRemoveVars == <<parserVars, unquoteVars, termVars, eqVars, bnodeVars, addVars,
    choiceVars, iriVars>>
notIriVars == <<parserVars, unquoteVars, termVars, eqVars, bnodeVars, addVars,
    choiceVars, removeVars>>

NThreads == 2
MaxBNodes == 3

Threads == 1..NThreads

NoError == [kind |-> "none", line |-> <<>>, cause |-> "none"]

\* NTriplesParser(): a default Sink; no parse and no unquote under way
Init ==
    /\ pc = "idle"
    /\ file_input = [data |-> <<>>, pos |-> 0]
    /\ buffer = None
    /\ line = None
    /\ sink = [length |-> 0, triples |-> <<>>]
    /\ err = NoError
    /\ doc = NoDoc
    /\ raw_line = None
    /\ returned = <<>>
    /\ outcome = "none"
    /\ uq_pc = "idle"
    /\ uq_input = <<>>
    /\ uq_string = <<>>
    /\ uq_result = <<>>
    /\ uq_err = "none"
    /\ t_pc = "idle"
    /\ t_args = <<>>
    /\ t_term = NoTerm
    /\ t_n3 = <<>>
    /\ t_back = Skipped(<<>>)
    /\ eq_pc = "idle"
    /\ eq_self = NoTerm
    /\ eq_other = NoTerm
    /\ eq_result = FALSE
    /\ bn_pc = [t \in Threads |-> "idle"]
    /\ bn_def = FALSE
    /\ prefix = <<>>
    /\ sn_gen = [i |-> 0, started |-> FALSE, running |-> FALSE]
    /\ bNodeLock = [owner |-> 0, count |-> 0]
    /\ node_id = [t \in Threads |-> 0 - 1]
    /\ labels = <<>>
    /\ calls = 0
    /\ add_pc = "none"
    /\ flags = [context_aware |-> FALSE, formula_aware |-> FALSE]
    /\ events = <<>>
    /\ add_args = <<>>
    /\ add_raised = FALSE
    /\ quads = <<>>
    /\ forwarded = 0
    /\ tc_pc = "none"
    /\ tc_triple = <<>>
    /\ tc_context = <<>>
    /\ tc_pos = 0
    /\ tc_alts = <<>>
    /\ tc_next = 0
    /\ tc_inner = <<>>
    /\ yielded = <<>>
    /\ triples_calls = <<>>
    /\ rm_pc = "none"
    /\ rm_added = <<>>
    /\ rm_calls = <<>>
    /\ iri_pc = "idle"
    /\ iri_line = <<>>
    /\ iri_subj = NotApplicable(<<>>)
    /\ iri_result = Skipped(<<>>)

\* ------------------------------------------------------------------------
\* The source: file_input.read(bufsiz) gives the characters that are left,
\* bufsiz of them at most, or a short read; '' once the text is exhausted
\* ------------------------------------------------------------------------
Remaining == Len(file_input.data) - file_input.pos

Exhausted_mut == FALSE

Exhausted == Remaining = 0

ReadSizes ==
    LET most == IF Remaining < bufsiz THEN Remaining ELSE bufsiz
    IN  {n \in 1..most : n <= MaxShortRead \/ n = most}

Chunk(n) == SubSeq(file_input.data, file_input.pos + 1, file_input.pos + n)

\* ------------------------------------------------------------------------
\* NTriplesParser.parse and readline
\* ------------------------------------------------------------------------
\* parse(file_input) is called
Parse ==
    /\ pc = "idle"
    /\ \E d \in Docs :
          /\ doc' = d
          /\ file_input' = [data |-> TextOf(d), pos |-> 0]
    /\ buffer' = None
    /\ pc' = "readline"
    /\ UNCHANGED <<line, sink, err, raw_line, returned, outcome, notParserVars>>

\* readline, empty buffer, the source is exhausted: return None, and parse
\* returns the sink
ReadlineNoMore ==
    /\ pc = "readline"
    /\ ~Truthy(buffer)
    /\ Exhausted
    /\ line' = None
    /\ pc' = "done"
    /\ UNCHANGED <<file_input, buffer, sink, err, doc, raw_line, returned,
                   outcome, notParserVars>>

\* readline, empty buffer: the buffer becomes what the source gives
ReadlineFill ==
    /\ pc = "readline"
    /\ ~Truthy(buffer)
    /\ \E n \in ReadSizes :
          /\ buffer' = Chunk(n)
          /\ file_input' = [file_input EXCEPT !.pos = @ + n]
    /\ UNCHANGED <<pc, line, sink, err, doc, raw_line, returned, outcome,
                   notParserVars>>

\* readline, r_line matches the buffer: return the line
ReadlineMatch ==
    /\ pc = "readline"
    /\ Truthy(buffer)
    /\ \E m \in {r_line(buffer)} :
          /\ Matched(m)
          /\ buffer' = Drop(buffer, m.end)
          /\ line' = m.group
          /\ raw_line' = m.group
          /\ returned' = Append(returned, m.group)
    /\ pc' = "parseline"
    /\ UNCHANGED <<file_input, sink, err, doc, outcome, notParserVars>>

buffer_add_mut(buf, chunk) == chunk

\* self.buffer += buffer
buffer_add(buf, chunk) == buf \o chunk

\* readline, no line in the buffer: what the source gives is appended
ReadlineMore ==
    /\ pc = "readline"
    /\ Truthy(buffer)
    /\ ~Matched(r_line(buffer))
    /\ \E n \in ReadSizes :
          /\ buffer' = buffer_add(buffer, Chunk(n))
          /\ file_input' = [file_input EXCEPT !.pos = @ + n]
    /\ UNCHANGED <<pc, line, sink, err, doc, raw_line, returned, outcome,
                   notParserVars>>

\* not buffer and self.buffer.isspace()
eof_in_line_negated(buf) == ~isspace(buf)

eof_in_line_never(buf) == FALSE

eof_in_line(buf) == isspace(buf)

\* readline, no line in the buffer, the source is exhausted, the buffer is
\* whitespace: ParseError("EOF in line"), which parse lets through
ReadlineEOFInLine ==
    /\ pc = "readline"
    /\ Truthy(buffer)
    /\ ~Matched(r_line(buffer))
    /\ Exhausted
    /\ eof_in_line(buffer)
    /\ err' = [kind |-> "EOF in line", line |-> <<>>, cause |-> "none"]
    /\ pc' = "error"
    /\ UNCHANGED <<file_input, buffer, line, sink, doc, raw_line, returned,
                   outcome, notParserVars>>

\* readline, no line in the buffer, the source is exhausted, the buffer is
\* not whitespace: return None, and parse returns the sink
ReadlineEOF ==
    /\ pc = "readline"
    /\ Truthy(buffer)
    /\ ~Matched(r_line(buffer))
    /\ Exhausted
    /\ ~eof_in_line(buffer)
    /\ line' = None
    /\ pc' = "done"
    /\ UNCHANGED <<file_input, buffer, sink, err, doc, raw_line, returned,
                   outcome, notParserVars>>

\* ------------------------------------------------------------------------
\* parseline, called by parse on the line readline returned
\* ------------------------------------------------------------------------
\* Sink.triple(s, p, o)
Sink_triple_mut(snk, t) == [length |-> snk.length, triples |-> Append(snk.triples, t)]

Sink_triple(snk, t) == [length |-> snk.length + 1, triples |-> Append(snk.triples, t)]

\* except ParseError: raise ParseError("Invalid line: %r" % self.line)
parse_except_mut(l, cause) == [pc |-> "readline", err |-> NoError]

parse_except(l, cause) ==
    [pc |-> "error", err |-> [kind |-> "Invalid line", line |-> l, cause |-> cause]]

\* a blank line or a comment
ParselineSkip ==
    /\ pc = "parseline"
    /\ \E r \in {parseline(line)} :
          /\ r.outcome = "skip"
          /\ line' = r.line
    /\ outcome' = "skip"
    /\ pc' = "readline"
    /\ UNCHANGED <<file_input, buffer, sink, err, doc, raw_line, returned,
                   notParserVars>>

\* a statement
ParselineTriple ==
    /\ pc = "parseline"
    /\ \E r \in {parseline(line)} :
          /\ r.outcome = "triple"
          /\ line' = r.line
          /\ sink' = Sink_triple(sink, r.triple)
    /\ outcome' = "triple"
    /\ pc' = "readline"
    /\ UNCHANGED <<file_input, buffer, err, doc, raw_line, returned,
                   notParserVars>>

\* ParseError in parseline
ParselineError ==
    /\ pc = "parseline"
    /\ \E r \in {parseline(line)} :
          /\ r.outcome = "raise"
          /\ line' = r.line
          /\ \E x \in {parse_except(r.line, r.reason)} :
                /\ pc' = x.pc
                /\ err' = x.err
    /\ outcome' = "raise"
    /\ UNCHANGED <<file_input, buffer, sink, doc, raw_line, returned,
                   notParserVars>>

Next ==
    \/ Parse
    \/ ReadlineNoMore
    \/ ReadlineFill
    \/ ReadlineMatch
    \/ ReadlineMore
    \/ ReadlineEOFInLine
    \/ ReadlineEOF
    \/ ParselineSkip
    \/ ParselineTriple
    \/ ParselineError

Spec == Init /\ [][Next]_vars

\* ------------------------------------------------------------------------
\* unquote, one iteration of its loop at a time
\* ------------------------------------------------------------------------
UnquoteCall ==
    /\ uq_pc = "idle"
    /\ \E s \in UqInputs :
          /\ uq_input' = s
          /\ uq_string' = s
    /\ uq_result' = <<>>
    /\ uq_pc' = "loop"
    /\ UNCHANGED <<uq_err, notUnquoteVars>>

\* an iteration that matches r_safe, r_quot or r_uniquot
UnquoteIterate ==
    /\ uq_pc = "loop"
    /\ uq_string # <<>>
    /\ \E st \in {unquote_step(uq_string)} :
          /\ st.raise = "none"
          /\ uq_string' = Drop(uq_string, st.n)
          /\ uq_result' = uq_result \o st.out
    /\ UNCHANGED <<uq_pc, uq_input, uq_err, notUnquoteVars>>

\* an iteration that raises ParseError
UnquoteRaise ==
    /\ uq_pc = "loop"
    /\ uq_string # <<>>
    /\ \E st \in {unquote_step(uq_string)} :
          /\ st.raise # "none"
          /\ uq_err' = st.raise
    /\ uq_pc' = "raised"
    /\ UNCHANGED <<uq_input, uq_string, uq_result, notUnquoteVars>>

\* the string is used up: return the result
UnquoteReturn ==
    /\ uq_pc = "loop"
    /\ uq_string = <<>>
    /\ uq_pc' = "returned"
    /\ UNCHANGED <<uq_input, uq_string, uq_result, uq_err, notUnquoteVars>>

NextUnquote ==
    \/ UnquoteCall
    \/ UnquoteIterate
    \/ UnquoteRaise
    \/ UnquoteReturn

SpecUnquote == Init /\ [][NextUnquote]_vars

\* ------------------------------------------------------------------------
\* One call at a time, of parse on a short document or of unquote, that is
\* never suspended: the caller's thread takes the next step of the call as
\* long as there is one
\* ------------------------------------------------------------------------
\* documents of two lines, with every kind of line and of terminator, and a
\* rest; and documents that are a rest only
ShortLines ==
    {Ended(StmtIri, <<CR, LF>>), Ended(StmtEscape, <<LF>>),
     Ended(BlankEmpty, <<CR>>), Ended(BadNoDot, <<LF>>)}

ShortDocs ==
    {[lines |-> <<l1, l2>>, rest |-> r] :
        l1 \in ShortLines, l2 \in ShortLines, r \in Rests}
    \cup {[lines |-> <<>>, rest |-> r] : r \in Rests}

\* parse(file_input) is called on one of them
ParseShort ==
    /\ pc = "idle"
    /\ uq_pc = "idle"
    /\ \E d \in ShortDocs :
          /\ doc' = d
          /\ file_input' = [data |-> TextOf(d), pos |-> 0]
    /\ buffer' = None
    /\ pc' = "readline"
    /\ UNCHANGED <<line, sink, err, raw_line, returned, outcome, notParserVars>>

\* unquote(string) is called, by itself
UnquoteAlone == pc = "idle" /\ UnquoteCall

NextCall ==
    \/ ParseShort
    \/ ReadlineNoMore
    \/ ReadlineFill
    \/ ReadlineMatch
    \/ ReadlineMore
    \/ ReadlineEOFInLine
    \/ ReadlineEOF
    \/ ParselineSkip
    \/ ParselineTriple
    \/ ParselineError
    \/ UnquoteAlone
    \/ UnquoteIterate
    \/ UnquoteRaise
    \/ UnquoteReturn

SpecCall == Init /\ [][NextCall]_vars /\ WF_vars(NextCall)

\* ------------------------------------------------------------------------
\* parseline on lines whose subject is written between '<' and '>'
\* ------------------------------------------------------------------------
MaxIriPieces == 3

\* what the subject is written with: plain characters, a colon, whitespace,
\* a quote, the end of one IRI-ref and the start of the next, escapes, a
\* broken escape, a character above 0x7E
IriPieces ==
    {<<97>>, <<COLON, 98>>, <<SP>>, <<QUOTE>>, <<GT, SP, LT, 99>>,
     <<BSLASH, 116>>, <<BSLASH, 113>>, <<BSLASH, QUOTE>>,
     <<BSLASH, 117, 48, 48, 50, 48>>, <<233>>}

IriBodies == {Concat(ps) : ps \in SeqsUpTo(IriPieces, MaxIriPieces)}

\* a line is read: '<' body '>' followed by a predicate, an object and '.'
IriReadline ==
    /\ iri_pc = "idle"
    /\ \E body \in IriBodies :
          iri_line' = <<LT>> \o body \o <<GT, SP>> \o IriP \o <<SP>> \o IriO
                         \o <<SP, DOT>>
    /\ iri_pc' = "line"
    /\ UNCHANGED <<iri_subj, iri_result, notIriVars>>

\* self.parseline() on it
IriParseline ==
    /\ iri_pc = "line"
    /\ iri_subj' = subject(eat(iri_line, r_wspace(iri_line)).line)
    /\ iri_result' = parseline(iri_line)
    /\ iri_pc' = "parsed"
    /\ UNCHANGED <<iri_line, notIriVars>>

NextIri ==
    \/ IriReadline
    \/ IriParseline

SpecIri == Init /\ [][NextIri]_vars

\* ------------------------------------------------------------------------
\* Terms: construction, n3() and the parse of the text n3() gives
\* ------------------------------------------------------------------------
MaxLex == 2

LexAlphabet == {97, 49, 233, TAB, LF, QUOTE, BSLASH}

\* the values Literal() is given: the strings over LexAlphabet and a native
\* int, float, bool and date
LitValues ==
    {PyStr(s) : s \in SeqsUpTo(LexAlphabet, MaxLex)}
    \cup {PyInt(0), PyInt(1), PyFloat(10), PyBool(TRUE), PyBool(FALSE),
          PyDate(2006, 1, 1)}

LangArgs == {None, <<>>, <<101, 110>>}

DatatypeArgs == {None, <<>>, <<100, 58, 116>>, XSD_integer}

IriValues == {<<115, 58, 97>>, <<97, 32, 98, 58, 99>>, <<97, 58, 233>>}

BNodeValues == {<<120>>, <<121, 49>>, <<120, HYPHEN, 49>>}

\* URIRef(value)
NewURIRef ==
    /\ t_pc = "idle"
    /\ \E value \in IriValues :
          /\ t_args' = [cls |-> "URIRef", value |-> PyStr(value), lang |-> None,
                        datatype |-> None]
          /\ t_term' = URI(value)
    /\ t_pc' = "constructed"
    /\ UNCHANGED <<t_n3, t_back, notTermVars>>

\* BNode(value) with a value
NewBNode ==
    /\ t_pc = "idle"
    /\ \E value \in BNodeValues :
          /\ t_args' = [cls |-> "BNode", value |-> PyStr(value), lang |-> None,
                        datatype |-> None]
          /\ t_term' = bNode(value)
    /\ t_pc' = "constructed"
    /\ UNCHANGED <<t_n3, t_back, notTermVars>>

\* Literal(value, lang, datatype) that returns
NewLiteral ==
    /\ t_pc = "idle"
    /\ \E value \in LitValues, lang \in LangArgs, datatype \in DatatypeArgs :
          \E r \in {Literal_init(value, lang, datatype)} :
             /\ r.raise = "none"
             /\ t_args' = [cls |-> "Literal", value |-> value, lang |-> lang,
                           datatype |-> datatype]
             /\ t_term' = r.term
    /\ t_pc' = "constructed"
    /\ UNCHANGED <<t_n3, t_back, notTermVars>>

\* Literal(value, lang, datatype) that raises TypeError
NewLiteralRaise ==
    /\ t_pc = "idle"
    /\ \E value \in LitValues, lang \in LangArgs, datatype \in DatatypeArgs :
          \E r \in {Literal_init(value, lang, datatype)} :
             /\ r.raise # "none"
             /\ t_args' = [cls |-> "Literal", value |-> value, lang |-> lang,
                           datatype |-> datatype]
    /\ t_pc' = "raised"
    /\ UNCHANGED <<t_term, t_n3, t_back, notTermVars>>

\* term.n3()
N3 ==
    /\ t_pc = "constructed"
    /\ t_n3' = n3(t_term)
    /\ t_pc' = "serialized"
    /\ UNCHANGED <<t_args, t_term, t_back, notTermVars>>

\* the N-Triples line with the text as its object
LineWithObject(text) == IriS \o <<SP>> \o IriP \o <<SP>> \o text \o <<SP, DOT>>

\* parseline on the line whose object is the text n3() gave
Reparse ==
    /\ t_pc = "serialized"
    /\ t_back' = parseline(LineWithObject(t_n3))
    /\ t_pc' = "reparsed"
    /\ UNCHANGED <<t_args, t_term, t_n3, notTermVars>>

NextTerm ==
    \/ NewURIRef
    \/ NewBNode
    \/ NewLiteral
    \/ NewLiteralRaise
    \/ N3
    \/ Reparse

SpecTerm == Init /\ [][NextTerm]_vars

\* ------------------------------------------------------------------------
\* Literal.__eq__ between two literals
\* ------------------------------------------------------------------------
\* "", "x", "1", "01", "1.0" and "nan", and the native 1 and 1.0
EqValues ==
    {PyStr(<<>>), PyStr(<<120>>), PyStr(<<49>>), PyStr(<<48, 49>>),
     PyStr(<<49, 46, 48>>), PyStr(<<110, 97, 110>>), PyInt(1), PyFloat(10)}

EqLangs == {None, <<101, 110>>, <<100, 101>>}

EqDatatypes == {None, <<100, 58, 116>>, XSD_integer, XSD_float, XSD_string}

\* the literals Literal() makes of these arguments
EqLiterals ==
    {r.term : r \in {x \in {Literal_init(value, lang, datatype) :
                               value \in EqValues, lang \in EqLangs,
                               datatype \in EqDatatypes} :
                        x.raise = "none"}}

\* the literal on the left is made
NewSelf ==
    /\ eq_pc = "idle"
    /\ \E l \in EqLiterals : eq_self' = l
    /\ eq_pc' = "self"
    /\ UNCHANGED <<eq_other, eq_result, notEqVars>>

\* the literal on the right is made
NewOther ==
    /\ eq_pc = "self"
    /\ \E l \in EqLiterals : eq_other' = l
    /\ eq_pc' = "both"
    /\ UNCHANGED <<eq_self, eq_result, notEqVars>>

\* eq_self == eq_other
Eq ==
    /\ eq_pc = "both"
    /\ eq_result' = Literal_eq(eq_self, eq_other)
    /\ eq_pc' = "compared"
    /\ UNCHANGED <<eq_self, eq_other, notEqVars>>

NextEq ==
    \/ NewSelf
    \/ NewOther
    \/ Eq

SpecEq == Init /\ [][NextEq]_vars

\* ------------------------------------------------------------------------
\* BNode() without a value, called by several threads (term_new.py)
\* ------------------------------------------------------------------------
\* what _unique_id() may return: eight letters
Prefixes ==
    {<<97, 98, 99, 100, 101, 102, 103, 104>>,
     <<78, 90, 81, 120, 84, 107, 87, 112>>}

\* def __init__(self, value=None, _sn_gen=_serial_number_generator(),
\* _prefix=_unique_id()): the default arguments are evaluated once
DefBNode ==
    /\ ~bn_def
    /\ bn_def' = TRUE
    /\ \E uid \in Prefixes : prefix' = uid
    /\ sn_gen' = [i |-> 0, started |-> FALSE, running |-> FALSE]
    /\ UNCHANGED <<bn_pc, bNodeLock, node_id, labels, calls, notBNodeVars>>

\* BNode() is called: value == None
Call(t) ==
    /\ bn_def
    /\ bn_pc[t] = "idle"
    /\ calls < MaxBNodes
    /\ calls' = calls + 1
    /\ bn_pc' = [bn_pc EXCEPT ![t] = "acquire"]
    /\ UNCHANGED <<bn_def, prefix, sn_gen, bNodeLock, node_id, labels,
                   notBNodeVars>>

\* RLock.acquire() by thread t: whether it returns, and the lock then
RLock_acquire(lock, t) ==
    IF lock.owner \in {0, t}
    THEN [ok |-> TRUE, lock |-> [owner |-> t, count |-> lock.count + 1]]
    ELSE [ok |-> FALSE, lock |-> lock]

RLock_release_mut(lock) == lock

\* RLock.release() by the owner
RLock_release(lock) ==
    IF lock.count = 1 THEN [owner |-> 0, count |-> 0]
    ELSE [owner |-> lock.owner, count |-> lock.count - 1]

\* bNodeLock.acquire(), which blocks while another thread owns the lock
Acquire(t) ==
    /\ bn_pc[t] = "acquire"
    /\ \E r \in {RLock_acquire(bNodeLock, t)} :
          /\ r.ok
          /\ bNodeLock' = r.lock
    /\ bn_pc' = [bn_pc EXCEPT ![t] = "next"]
    /\ UNCHANGED <<bn_def, prefix, sn_gen, node_id, labels, calls,
                   notBNodeVars>>

serial_number_generator_mut(g) ==
    [i |-> 0, started |-> TRUE, running |-> TRUE]

\* _serial_number_generator resumed: i = 0 at the start, i = i + 1 after
\* a yield
serial_number_generator(g) ==
    [i |-> IF g.started THEN g.i + 1 ELSE 0, started |-> TRUE, running |-> TRUE]

\* next(_sn_gen) enters the generator; ValueError when it is running already
NextResume(t) ==
    /\ bn_pc[t] = "next"
    /\ IF sn_gen.running
       THEN /\ bn_pc' = [bn_pc EXCEPT ![t] = "raised"]
            /\ UNCHANGED sn_gen
       ELSE /\ bn_pc' = [bn_pc EXCEPT ![t] = "yield"]
            /\ sn_gen' = serial_number_generator(sn_gen)
    /\ UNCHANGED <<bn_def, prefix, bNodeLock, node_id, labels, calls,
                   notBNodeVars>>

\* yield i: node_id = next(_sn_gen)
NextYield(t) ==
    /\ bn_pc[t] = "yield"
    /\ node_id' = [node_id EXCEPT ![t] = sn_gen.i]
    /\ sn_gen' = [sn_gen EXCEPT !.running = FALSE]
    /\ bn_pc' = [bn_pc EXCEPT ![t] = "release"]
    /\ UNCHANGED <<bn_def, prefix, bNodeLock, labels, calls, notBNodeVars>>

\* bNodeLock.release()
Release(t) ==
    /\ bn_pc[t] = "release"
    /\ bNodeLock' = RLock_release(bNodeLock)
    /\ bn_pc' = [bn_pc EXCEPT ![t] = "format"]
    /\ UNCHANGED <<bn_def, prefix, sn_gen, node_id, labels, calls,
                   notBNodeVars>>

\* value = "%s%s" % (_prefix, node_id); Identifier.__init__(value)
Format(t) ==
    /\ bn_pc[t] = "format"
    /\ labels' = Append(labels,
                        [thread |-> t, node_id |-> node_id[t],
                         value |-> bNode(prefix \o str(PyInt(node_id[t]))).value])
    /\ bn_pc' = [bn_pc EXCEPT ![t] = "idle"]
    /\ UNCHANGED <<bn_def, prefix, sn_gen, bNodeLock, node_id, calls,
                   notBNodeVars>>

NextBNode ==
    \/ DefBNode
    \/ \E t \in Threads : Call(t)
    \/ \E t \in Threads : Acquire(t)
    \/ \E t \in Threads : NextResume(t)
    \/ \E t \in Threads : NextYield(t)
    \/ \E t \in Threads : Release(t)
    \/ \E t \in Threads : Format(t)

SpecBNode == Init /\ [][NextBNode]_vars

\* a thread that can take a step takes it, and a thread that waits for the
\* lock gets it if the lock is free again and again
FairThreads ==
    \A t \in Threads :
       /\ SF_vars(Acquire(t))
       /\ WF_vars(NextResume(t))
       /\ WF_vars(NextYield(t))
       /\ WF_vars(Release(t))
       /\ WF_vars(Format(t))

SpecBNodeFair == SpecBNode /\ FairThreads

\* ------------------------------------------------------------------------
\* Store.add and Store.addN (store.py)
\* ------------------------------------------------------------------------
MaxQuads == 2

\* Python's None where a term, a context or a list may stand
PyNone == [kind |-> "NoneType", value |-> <<>>, language |-> None, datatype |-> None]

\* the triples and the contexts the calls are made with
AddTriples == {<<TermS, TermP, TermO>>, <<TermS, TermP, Literal(<<120>>, None, None)>>}

AddContexts == {PyNone, URI(<<99, 58, 49>>), URI(<<99, 58, 50>>)}

AddQuads == {[s |-> t[1], p |-> t[2], o |-> t[3], c |-> c] :
                t \in AddTriples, c \in AddContexts}

\* TripleAddedEvent(triple=triple, context=context)
TripleAddedEvent(triple, context) ==
    [event |-> "TripleAdded", triple |-> triple, context |-> context]

\* Store.add(triple, context, quoted) on a store with these flags: whether
\* it raises and the events it gives to self.dispatcher.dispatch
Store_add(store, triple, context, quoted) ==
    [raise |-> FALSE,
     dispatched |-> <<TripleAddedEvent(<<triple[1], triple[2], triple[3]>>, context)>>]

\* a store of a class with some capability flags
NewStore ==
    /\ add_pc = "none"
    /\ \E ca \in BOOLEAN, fa \in BOOLEAN :
          flags' = [context_aware |-> ca, formula_aware |-> fa]
    /\ add_pc' = "ready"
    /\ UNCHANGED <<events, add_args, add_raised, quads, forwarded, notAddVars>>

\* store.add(triple, context, quoted)
Add ==
    /\ add_pc = "ready"
    /\ \E triple \in AddTriples, context \in AddContexts, quoted \in BOOLEAN :
          \E r \in {Store_add(flags, triple, context, quoted)} :
             /\ add_args' = [triple |-> triple, context |-> context,
                             quoted |-> quoted]
             /\ add_raised' = r.raise
             /\ events' = events \o r.dispatched
    /\ add_pc' = "add"
    /\ UNCHANGED <<flags, quads, forwarded, notAddVars>>

\* store.addN(quads) is called
AddN ==
    /\ add_pc = "ready"
    /\ \E qs \in SeqsUpTo(AddQuads, MaxQuads) : quads' = qs
    /\ forwarded' = 0
    /\ add_pc' = "addN"
    /\ UNCHANGED <<flags, events, add_args, add_raised, notAddVars>>

addN_assert_mut(c) == TRUE

\* assert c is not None
addN_assert(c) == c # PyNone

\* an iteration of the loop of addN whose assertion holds: self.add((s,p,o), c)
AddNForward ==
    /\ add_pc = "addN"
    /\ forwarded < Len(quads)
    /\ \E q \in {quads[forwarded + 1]} :
          /\ addN_assert(q.c)
          /\ \E r \in {Store_add(flags, <<q.s, q.p, q.o>>, q.c, FALSE)} :
                /\ add_args' = [triple |-> <<q.s, q.p, q.o>>, context |-> q.c,
                                quoted |-> FALSE]
                /\ add_raised' = r.raise
                /\ events' = events \o r.dispatched
                /\ add_pc' = IF r.raise THEN "raised" ELSE "addN"
    /\ forwarded' = forwarded + 1
    /\ UNCHANGED <<flags, quads, notAddVars>>

\* an iteration whose assertion fails: AssertionError
AddNAssertionError ==
    /\ add_pc = "addN"
    /\ forwarded < Len(quads)
    /\ ~addN_assert(quads[forwarded + 1].c)
    /\ add_pc' = "raised"
    /\ UNCHANGED <<flags, events, add_args, add_raised, quads, forwarded,
                   notAddVars>>

\* the loop has gone through quads: addN returns
AddNReturn ==
    /\ add_pc = "addN"
    /\ forwarded = Len(quads)
    /\ add_pc' = "returned"
    /\ UNCHANGED <<flags, events, add_args, add_raised, quads, forwarded,
                   notAddVars>>

NextAdd ==
    \/ NewStore
    \/ Add
    \/ AddN
    \/ AddNForward
    \/ AddNAssertionError
    \/ AddNReturn

SpecAdd == Init /\ [][NextAdd]_vars

\* ------------------------------------------------------------------------
\* Store.remove (store.py)
\* ------------------------------------------------------------------------
MaxCalls == 3

\* the patterns store.remove is called with
RemovePatterns ==
    AddTriples \cup {<<PyNone, PyNone, PyNone>>, <<TermS, PyNone, PyNone>>}

\* TripleRemovedEvent(triple=triple, context=context)
TripleRemovedEvent(triple, context) ==
    [event |-> "TripleRemoved", triple |-> triple, context |-> context]

\* Store.remove(triple, context): the events it gives to
\* self.dispatcher.dispatch
Store_remove(store, triple, context) ==
    [dispatched |-> <<TripleRemovedEvent(<<triple[1], triple[2], triple[3]>>, context)>>]

\* Store()
RemoveNewStore ==
    /\ rm_pc = "none"
    /\ rm_pc' = "ready"
    /\ UNCHANGED <<rm_added, rm_calls, notRemoveVars>>

\* store.add(triple, context)
RemoveAdd ==
    /\ rm_pc = "ready"
    /\ Len(rm_added) + Len(rm_calls) < MaxCalls
    /\ \E triple \in AddTriples, context \in AddContexts :
          rm_added' = Append(rm_added, [triple |-> triple, context |-> context])
    /\ UNCHANGED <<rm_pc, rm_calls, notRemoveVars>>

\* store.remove(triple, context)
Remove ==
    /\ rm_pc = "ready"
    /\ Len(rm_added) + Len(rm_calls) < MaxCalls
    /\ \E triple \in RemovePatterns, context \in AddContexts :
          \E r \in {Store_remove(flags, triple, context)} :
             rm_calls' = Append(rm_calls,
                                [triple |-> triple, context |-> context,
                                 added |-> rm_added,
                                 dispatched |-> r.dispatched])
    /\ UNCHANGED <<rm_pc, rm_added, notRemoveVars>>

NextRemove ==
    \/ RemoveNewStore
    \/ RemoveAdd
    \/ Remove

SpecRemove == Init /\ [][NextRemove]_vars

\* ------------------------------------------------------------------------
\* Store.triples_choices (store.py), a generator over a backend's triples
\* ------------------------------------------------------------------------
MaxAlts == 2

\* a Python list of terms
PyList(items) == [kind |-> "list", items |-> items]

\* isinstance(x, list)
isinstance_list(x) == x.kind = "list"

NodeA == URI(<<110, 58, 97>>)
NodeB == URI(<<110, 58, 98>>)
PropP == URI(<<112, 58, 112>>)
PropQ == URI(<<112, 58, 113>>)
ValueX == Literal(<<120>>, None, None)
ValueY == Literal(<<121>>, None, None)
Ctx1 == URI(<<99, 58, 49>>)
Ctx2 == URI(<<99, 58, 50>>)

\* the statements the backend holds, in the order it produces them
Backend ==
    <<[s |-> NodeA, p |-> PropP, o |-> ValueX, c |-> Ctx1],
      [s |-> NodeB, p |-> PropP, o |-> ValueX, c |-> Ctx1],
      [s |-> NodeA, p |-> PropQ, o |-> ValueY, c |-> Ctx2],
      [s |-> NodeA, p |-> PropP, o |-> ValueX, c |-> Ctx2],
      [s |-> NodeB, p |-> PropQ, o |-> ValueX, c |-> Ctx1]>>

\* self.triples(triple, context) of the backend: the (triple, context)
\* pairs that match the pattern, None matching everything
triples(triple, context) ==
    LET Matches(q) ==
           /\ triple[1] = PyNone \/ triple[1] = q.s
           /\ triple[2] = PyNone \/ triple[2] = q.p
           /\ triple[3] = PyNone \/ triple[3] = q.o
           /\ context = PyNone \/ context = q.c
        matching == SelectSeq(Backend, Matches)
    IN  [i \in 1..Len(matching) |->
            <<<<matching[i].s, matching[i].p, matching[i].o>>, matching[i].c>>]

\* the patterns and contexts triples_choices is called with
ListsOf(S) == {PyList(items) : items \in SeqsUpTo(S, MaxAlts)}

ChoicePatterns ==
    ({NodeA, PyNone} \cup ListsOf({NodeA, NodeB}))
    \X ({PropP, PyNone} \cup ListsOf({PropP, PropQ}))
    \X ({ValueX} \cup ListsOf({ValueX, ValueY}))

ChoiceContexts == {PyNone, Ctx1}

assert_not_list_mut(x) == TRUE

\* assert not isinstance(x, list)
assert_not_list(x) == ~isinstance_list(x)

Alternatives_none_mut(lst) == lst.items

Alternatives_mut(lst) ==
    IF lst.items # <<>>
    THEN [i \in 1..Len(lst.items) |-> lst.items[Len(lst.items) + 1 - i]]
    ELSE <<PyNone>>

\* what the loop over a list-valued position goes through: the list, or for
\* an empty list the one query with None
Alternatives(lst) == IF lst.items # <<>> THEN lst.items ELSE <<PyNone>>

choices_branch_mut(triple) ==
    The({IF isinstance_list(object_)
         THEN IF ~assert_not_list(subject_) \/ ~assert_not_list(predicate_)
              THEN [raise |-> TRUE, pos |-> 3, alts |-> <<>>]
              ELSE [raise |-> FALSE, pos |-> 3, alts |-> Alternatives(object_)]
         ELSE IF isinstance_list(subject_)
         THEN IF ~assert_not_list(predicate_)
              THEN [raise |-> TRUE, pos |-> 1, alts |-> <<>>]
              ELSE [raise |-> FALSE, pos |-> 1, alts |-> Alternatives(subject_)]
         ELSE IF isinstance_list(predicate_)
         THEN IF ~assert_not_list(subject_)
              THEN [raise |-> TRUE, pos |-> 2, alts |-> <<>>]
              ELSE [raise |-> FALSE, pos |-> 2, alts |-> Alternatives(predicate_)]
         ELSE [raise |-> FALSE, pos |-> 3, alts |-> <<object_>>] :
         subject_ \in {triple[1]}, predicate_ \in {triple[2]},
         object_ \in {triple[3]}})

\* the branch triples_choices takes: the position of the list and what to
\* iterate over, AssertionError, or nothing to do without a list
choices_branch(triple) ==
    The({IF isinstance_list(object_)
         THEN IF ~assert_not_list(subject_) \/ ~assert_not_list(predicate_)
              THEN [raise |-> TRUE, pos |-> 3, alts |-> <<>>]
              ELSE [raise |-> FALSE, pos |-> 3, alts |-> Alternatives(object_)]
         ELSE IF isinstance_list(subject_)
         THEN IF ~assert_not_list(predicate_)
              THEN [raise |-> TRUE, pos |-> 1, alts |-> <<>>]
              ELSE [raise |-> FALSE, pos |-> 1, alts |-> Alternatives(subject_)]
         ELSE IF isinstance_list(predicate_)
         THEN IF ~assert_not_list(subject_)
              THEN [raise |-> TRUE, pos |-> 2, alts |-> <<>>]
              ELSE [raise |-> FALSE, pos |-> 2, alts |-> Alternatives(predicate_)]
         ELSE [raise |-> FALSE, pos |-> 0, alts |-> <<>>] :
         subject_ \in {triple[1]}, predicate_ \in {triple[2]},
         object_ \in {triple[3]}})

\* store.triples_choices(triple, context): a generator that has not started
ChoicesCall ==
    /\ tc_pc = "none"
    /\ \E triple \in ChoicePatterns, context \in ChoiceContexts :
          /\ tc_triple' = triple
          /\ tc_context' = context
    /\ tc_pc' = "created"
    /\ UNCHANGED <<tc_pos, tc_alts, tc_next, tc_inner, yielded, triples_calls,
                   notChoiceVars>>

\* the first next(): the branch is chosen
ChoicesStart ==
    /\ tc_pc = "created"
    /\ \E b \in {choices_branch(tc_triple)} :
          /\ ~b.raise
          /\ tc_pos' = b.pos
          /\ tc_alts' = b.alts
    /\ tc_next' = 0
    /\ tc_pc' = "loop"
    /\ UNCHANGED <<tc_triple, tc_context, tc_inner, yielded, triples_calls,
                   notChoiceVars>>

\* the first next(): AssertionError
ChoicesAssertionError ==
    /\ tc_pc = "created"
    /\ choices_branch(tc_triple).raise
    /\ tc_pc' = "raised"
    /\ UNCHANGED <<tc_triple, tc_context, tc_pos, tc_alts, tc_next, tc_inner,
                   yielded, triples_calls, notChoiceVars>>

\* the next alternative: self.triples((subject, predicate, obj), context)
ChoicesQuery ==
    /\ tc_pc = "loop"
    /\ tc_inner = <<>>
    /\ tc_next < Len(tc_alts)
    /\ \E pattern \in {[tc_triple EXCEPT ![tc_pos] = tc_alts[tc_next + 1]]} :
          /\ triples_calls' = Append(triples_calls, <<pattern, tc_context>>)
          /\ tc_inner' = triples(pattern, tc_context)
    /\ tc_next' = tc_next + 1
    /\ UNCHANGED <<tc_pc, tc_triple, tc_context, tc_pos, tc_alts, yielded,
                   notChoiceVars>>

\* yield (s1, p1, o1), cg
ChoicesYield ==
    /\ tc_pc = "loop"
    /\ tc_inner # <<>>
    /\ yielded' = Append(yielded, Head(tc_inner))
    /\ tc_inner' = Tail(tc_inner)
    /\ UNCHANGED <<tc_pc, tc_triple, tc_context, tc_pos, tc_alts, tc_next,
                   triples_calls, notChoiceVars>>

\* the loops are over: StopIteration
ChoicesStop ==
    /\ tc_pc = "loop"
    /\ tc_inner = <<>>
    /\ tc_next = Len(tc_alts)
    /\ tc_pc' = "done"
    /\ UNCHANGED <<tc_triple, tc_context, tc_pos, tc_alts, tc_next, tc_inner,
                   yielded, triples_calls, notChoiceVars>>

NextChoices ==
    \/ ChoicesCall
    \/ ChoicesStart
    \/ ChoicesAssertionError
    \/ ChoicesQuery
    \/ ChoicesYield
    \/ ChoicesStop

SpecChoices == Init /\ [][NextChoices]_vars

\* ------------------------------------------------------------------------
\* What a document says should come out of parse
\* ------------------------------------------------------------------------
\* the triples of the statement lines, in order
RECURSIVE TriplesOf(_)
TriplesOf(ls) ==
    IF ls = <<>> THEN <<>>
    ELSE (IF Head(ls).kind = "stmt" THEN <<Head(ls).triple>> ELSE <<>>)
         \o TriplesOf(Tail(ls))

\* the index of the first line that is not a statement, a blank line or a
\* comment; 0 if there is none
FirstBad(ls) ==
    LET bad == {i \in 1..Len(ls) : ls[i].kind = "bad"}
    IN  IF bad = {} THEN 0 ELSE SetMin(bad)

AllGood(d) == FirstBad(d.lines) = 0

\* the non-empty lines of a sequence of lines
NonEmpty(ls) == SelectSeq(ls, LAMBDA l : l # <<>>)

LineChars(ls) == [i \in 1..Len(ls) |-> ls[i].chars]

IsPrefix(a, b) == Len(a) <= Len(b) /\ a = Take(b, Len(a))

Terminal == pc \in {"done", "error"}

\* the text split at CR, LF and CRLF: the lines that have a terminator,
\* cur being the line collected so far
RECURSIVE SplitFrom(_, _)
SplitFrom(t, cur) ==
    IF t = <<>> THEN <<>>
    ELSE IF Len(t) >= 2 /\ t[1] = CR /\ t[2] = LF
    THEN <<cur>> \o SplitFrom(Drop(t, 2), <<>>)
    ELSE IF t[1] \in {CR, LF}
    THEN <<cur>> \o SplitFrom(Tail(t), <<>>)
    ELSE SplitFrom(Tail(t), Append(cur, t[1]))

SplitLines(t) == SplitFrom(t, <<>>)

\* ------------------------------------------------------------------------
\* The shape of a statement line, written from the grammar
\* ------------------------------------------------------------------------
AllWsp(s, i, j) == \A k \in i..j : IsWsp(s[k])

IsIriRefText(t) ==
    LET n == Len(t)
    IN  /\ n >= 5
        /\ t[1] = LT
        /\ t[n] = GT
        /\ \E c \in 3..(n - 2) :
              /\ t[c] = COLON
              /\ \A i \in 2..(c - 1) : t[i] # COLON
              /\ \A i \in (c + 1)..(n - 1) : IriChar(t[i])

IsNodeIdText(t) ==
    /\ Len(t) >= 3
    /\ t[1] = USCORE
    /\ t[2] = COLON
    /\ IsAlpha(t[3])
    /\ \A i \in 4..Len(t) : IsAlnum(t[i])

IsLangText(u) ==
    /\ Len(u) >= 2
    /\ u[1] = AT
    /\ IsLower(u[2])
    /\ \A i \in 3..Len(u) : IsLowerNum(u[i]) \/ u[i] = HYPHEN

IsTypeText(u) ==
    /\ Len(u) >= 2
    /\ u[1] = CARET
    /\ u[2] = CARET
    /\ IsIriRefText(Drop(u, 2))

IsLiteralText(t) ==
    /\ Len(t) >= 2
    /\ t[1] = QUOTE
    /\ LiteralClose(t, 2) > 0
    /\ LET u == Drop(t, LiteralClose(t, 2))
       IN  u = <<>> \/ IsLangText(u) \/ IsTypeText(u)

IsSubjectText(t) == IsIriRefText(t) \/ IsNodeIdText(t)
IsObjectText(t) == IsIriRefText(t) \/ IsNodeIdText(t) \/ IsLiteralText(t)

\* optional spaces/tabs, subject, spaces/tabs, predicate, spaces/tabs,
\* object, optional spaces/tabs, '.', optional spaces/tabs
Shape(l) ==
    LET n == Len(l)
    IN  \E a \in 0..n :
          /\ AllWsp(l, 1, a)
          /\ \E b \in (a + 1)..n :
                /\ IsSubjectText(SubSeq(l, a + 1, b))
                /\ \E c \in (b + 1)..n :
                      /\ AllWsp(l, b + 1, c)
                      /\ \E d \in (c + 1)..n :
                            /\ IsIriRefText(SubSeq(l, c + 1, d))
                            /\ \E e \in (d + 1)..n :
                                  /\ AllWsp(l, d + 1, e)
                                  /\ \E f \in (e + 1)..n :
                                        /\ IsObjectText(SubSeq(l, e + 1, f))
                                        /\ \E g \in f..(n - 1) :
                                              /\ AllWsp(l, f + 1, g)
                                              /\ l[g + 1] = DOT
                                              /\ AllWsp(l, g + 2, n)

\* empty, only spaces/tabs, or first non-whitespace character '#'
IsBlankOrComment(l) ==
    LET a == SpanLen(l, IsWsp)
    IN  a = Len(l) \/ l[a + 1] = HASH

\* the subject of the line is a literal
SubjectIsLiteral(l) ==
    LET a == SpanLen(l, IsWsp)
    IN  a < Len(l) /\ l[a + 1] = QUOTE

\* the line has a subject and spaces/tabs, and then a blank node or a
\* literal where the predicate is due
PredicateIsNodeOrLiteral(l) ==
    LET n == Len(l)
    IN  \E a \in 0..n :
          /\ AllWsp(l, 1, a)
          /\ \E b \in (a + 1)..n :
                /\ IsSubjectText(SubSeq(l, a + 1, b))
                /\ \E c \in (b + 1)..(n - 1) :
                      /\ AllWsp(l, b + 1, c)
                      /\ l[c + 1] \in {USCORE, QUOTE}

\* a quoted literal of the line is followed by a language marker and a
\* datatype marker
HasBothMarkers(l) ==
    \E q \in 2..Len(l) :
       /\ l[q] = QUOTE
       /\ \E i \in (q + 1)..Len(l), j \in (q + 1)..Len(l) :
             /\ i < j
             /\ \/ IsLangText(SubSeq(l, q + 1, i)) /\ IsTypeText(SubSeq(l, i + 1, j))
                \/ IsTypeText(SubSeq(l, q + 1, i)) /\ IsLangText(SubSeq(l, i + 1, j))

C2_FailFast ==
    /\ pc = "done" => AllGood(doc)
    /\ (pc # "idle" /\ ~AllGood(doc)) =>
          IsPrefix(sink.triples, TriplesOf(Take(doc.lines, FirstBad(doc.lines) - 1)))
    /\ (pc = "error" /\ ~AllGood(doc)) =>
          LET k == FirstBad(doc.lines)
          IN  /\ err.kind = "Invalid line"
              /\ raw_line = doc.lines[k].chars
              /\ returned[Len(returned)] = raw_line
              /\ NonEmpty(returned) = NonEmpty(LineChars(Take(doc.lines, k)))
              /\ sink.triples = TriplesOf(Take(doc.lines, k - 1))
              /\ sink.length = Len(sink.triples)

C2_Witness ==
    /\ pc = "error"
    /\ FirstBad(doc.lines) = 2
    /\ Len(doc.lines) = 3
    /\ doc.lines[3].kind = "stmt"
    /\ sink.length = 1

\* C3: when the lines are valid and the text after the last terminator is
\* not whitespace, parse returns normally: readline ends with None and the
\* unterminated text still in the buffer, the lines handed to parseline
\* are the terminated lines only, and the sink has the triples of the
\* terminated statement lines and none for the unterminated text.
C3_UnterminatedTextDropped ==
    (Terminal /\ AllGood(doc) /\ doc.rest # <<>> /\ ~isspace(doc.rest)) =>
        /\ pc = "done"
        /\ err = NoError
        /\ line = None
        /\ buffer = doc.rest
        /\ NonEmpty(returned) = NonEmpty(LineChars(doc.lines))
        /\ sink.triples = TriplesOf(doc.lines)

C3_Witness ==
    /\ pc = "done"
    /\ doc.rest = StmtIri.chars
    /\ buffer = doc.rest
    /\ Len(doc.lines) >= 2
    /\ sink.length = 1

\* C4: when the lines are valid and the text after the last terminator is
\* non-empty and all whitespace, parse fails with "EOF in line" (after the
\* triples of the terminated lines); when nothing follows the last
\* terminator, parse returns normally.
C4_WhitespaceAtEOF ==
    (Terminal /\ AllGood(doc)) =>
        /\ isspace(doc.rest) =>
              /\ pc = "error"
              /\ err.kind = "EOF in line"
              /\ buffer = doc.rest
              /\ sink.triples = TriplesOf(doc.lines)
        /\ doc.rest = <<>> =>
              /\ pc = "done"
              /\ err = NoError
              /\ ~Truthy(buffer)

C4_Witness ==
    /\ pc = "error"
    /\ err.kind = "EOF in line"
    /\ isspace(buffer)
    /\ sink.length >= 1

\* C5: the lines readline has returned are the first lines of the text
\* split at its CR, LF and CRLF terminators, and all of them once parse has
\* returned, however the source cut the text into chunks.
C5_LinesAreTheSplit ==
    pc # "idle" =>
        /\ IsPrefix(returned, SplitLines(file_input.data))
        /\ (pc = "done" /\ AllGood(doc)) => returned = SplitLines(file_input.data)

\* C6: the "Invalid line" error parse raises carries the whole line as
\* readline returned it.
C6_ErrorCarriesWholeLine ==
    (pc = "error" /\ err.kind = "Invalid line") => err.line = raw_line

\* C7: parseline emits a triple only for a line of the shape: optional
\* spaces/tabs, subject, spaces/tabs, predicate, spaces/tabs, object,
\* optional spaces/tabs, '.', optional spaces/tabs; on any other line it
\* leaves the sink alone and, unless the line is blank or a comment, parse
\* raises.
C7_OnlyShapedLinesEmit ==
    [][(pc = "parseline" /\ ~Shape(raw_line)) =>
          /\ sink' = sink
          /\ IsBlankOrComment(raw_line) \/ (pc' = "error" /\ err'.kind = "Invalid line")]_vars

C7_Witness ==
    /\ pc = "error"
    /\ raw_line = BadNoSep2.chars
    /\ ~Shape(raw_line)
    /\ sink.length = 1
    /\ Shape(returned[1])

\* C8: every triple the sink has received has an IRI or a blank node as
\* subject, an IRI as predicate and an IRI, a blank node or a literal as
\* object; on a line whose subject is a literal, or with a blank node or a
\* literal where the predicate is due, parse raises and the sink is left
\* alone.
C8_TermKinds ==
    [][/\ \A i \in 1..Len(sink'.triples) :
            /\ sink'.triples[i][1].kind \in {"URIRef", "BNode"}
            /\ sink'.triples[i][2].kind = "URIRef"
            /\ sink'.triples[i][3].kind \in {"URIRef", "BNode", "Literal"}
       /\ (/\ pc = "parseline"
           /\ SubjectIsLiteral(raw_line) \/ PredicateIsNodeOrLiteral(raw_line)) =>
             /\ sink' = sink
             /\ pc' = "error"
             /\ err'.kind = "Invalid line"]_vars

C8_Witness ==
    /\ pc = "error"
    /\ PredicateIsNodeOrLiteral(raw_line)
    /\ sink.length = 1
    /\ sink.triples[1][1].kind = "BNode"
    /\ sink.triples[1][3].kind = "BNode"

\* C9: when parse fails on a line whose literal carries both a language
\* marker and a datatype marker, the failure is the type-conflict error
\* "Can't have both a language and a datatype".
C9_TypeConflictReported ==
    (pc = "error" /\ err.kind = "Invalid line" /\ HasBothMarkers(raw_line)) =>
        err.cause = "Can't have both a language and a datatype"

\* ------------------------------------------------------------------------
\* Properties of unquote
\* ------------------------------------------------------------------------
\* [0-9A-Fa-f] and its value
IsHexDigit(c) == c \in (48..57) \cup (65..70) \cup (97..102)
HexDigitVal(c) ==
    IF c \in 48..57 THEN c - 48 ELSE IF c \in 65..70 THEN c - 55 ELSE c - 87

\* the digits ds are the number v in base 16
RECURSIVE HexDenotes(_, _)
HexDenotes(ds, v) ==
    IF ds = <<>> THEN v = 0
    ELSE /\ v % 16 = HexDigitVal(ds[Len(ds)])
         /\ HexDenotes(Take(ds, Len(ds) - 1), v \div 16)

\* tok is an escape: a backslash followed by t, n, r, a double quote, a
\* backslash, u and 4 hex digits or U and 8 hex digits
IsEscape(tok) ==
    /\ Len(tok) \in {2, 6, 10}
    /\ tok[1] = BSLASH
    /\ \/ Len(tok) = 2 /\ tok[2] \in {116, 110, 114, QUOTE, BSLASH}
       \/ Len(tok) = 6 /\ tok[2] = 117 /\ \A i \in 3..6 : IsHexDigit(tok[i])
       \/ Len(tok) = 10 /\ tok[2] = 85 /\ \A i \in 3..10 : IsHexDigit(tok[i])

\* tok is the character c copied verbatim, or an escape that stands for c
Encodes(tok, c) ==
    \/ Len(tok) = 1 /\ tok[1] = c /\ c >= 32 /\ c \notin {QUOTE, BSLASH}
    \/ /\ IsEscape(tok)
       /\ \/ Len(tok) = 2 /\ <<tok[2], c>> \in
                {<<116, 9>>, <<110, 10>>, <<114, 13>>, <<QUOTE, QUOTE>>,
                 <<BSLASH, BSLASH>>}
          \/ Len(tok) > 2 /\ HexDenotes(Drop(tok, 2), c)

\* r is the decoding of the whole of s, character by character, in order
RECURSIVE Decodes(_, _)
Decodes(s, r) ==
    IF s = <<>> \/ r = <<>> THEN s = <<>> /\ r = <<>>
    ELSE \E k \in {1, 2, 6, 10} :
            /\ k <= Len(s)
            /\ Encodes(Take(s, k), Head(r))
            /\ Decodes(Drop(s, k), Tail(r))

\* every backslash of s that is not part of an escape begins one
RECURSIVE EscapesOK(_)
EscapesOK(s) ==
    IF s = <<>> THEN TRUE
    ELSE IF s[1] # BSLASH THEN EscapesOK(Tail(s))
    ELSE \E k \in {2, 6, 10} :
            /\ k <= Len(s)
            /\ IsEscape(Take(s, k))
            /\ EscapesOK(Drop(s, k))

\* C10: unquote returns only the exact decoding of its whole argument, and
\* returns only when every backslash begins an escape \t, \n, \r, \", \\,
\* \u + 4 hex digits or \U + 8 hex digits; otherwise it raises ParseError.
C10_UnquoteStrict ==
    /\ uq_pc = "returned" => Decodes(uq_input, uq_result) /\ EscapesOK(uq_input)
    /\ (uq_pc \in {"returned", "raised"} /\ ~EscapesOK(uq_input)) =>
          uq_pc = "raised" /\ uq_err # "none"

C10_Witness ==
    /\ uq_pc = "returned"
    /\ uq_input = <<BSLASH, 110, BSLASH, 117, 48, 48, 52, 49>>
    /\ uq_result = <<LF, 65>>

\* the number the hex digits ds denote (at most 6 significant digits)
RECURSIVE HexNum(_)
HexNum(ds) ==
    IF ds = <<>> THEN 0
    ELSE 16 * HexNum(Take(ds, Len(ds) - 1)) + HexDigitVal(ds[Len(ds)])

IsUpperHexDigit(c) == c \in (48..57) \cup (65..70)

\* the digits ds of a \u or \U escape denote a number above 0x10FFFF: the
\* first four of eight digits denote more than 0x10
AboveMaximum(ds) == Len(ds) = 8 /\ HexNum(Take(ds, 4)) > 16

\* unquote was called on one \u or \U escape whose digits all satisfy Digit,
\* and has ended
OneUnicodeEscape(Digit(_)) ==
    /\ uq_pc \in {"returned", "raised"}
    /\ Len(uq_input) \in {6, 10}
    /\ uq_input[1] = BSLASH
    /\ \/ Len(uq_input) = 6 /\ uq_input[2] = 117
       \/ Len(uq_input) = 10 /\ uq_input[2] = 85
    /\ \A i \in 3..Len(uq_input) : Digit(uq_input[i])

\* the escape gave the character its digits denote, or ParseError for a
\* number above 0x10FFFF
BoundaryRespected ==
    IF AboveMaximum(Drop(uq_input, 2))
    THEN uq_pc = "raised" /\ uq_err = "Disallowed codepoint"
    ELSE uq_pc = "returned" /\ uq_result = <<HexNum(Drop(uq_input, 2))>>

\* C11 as stated: every \u escape of 4 hex digits and every \U escape of 8
\* hex digits, in either case of the letters a to f, yields the character
\* with that code point up to 0x10FFFF and raises ParseError above it.
C11_AnyHexDigits == OneUnicodeEscape(IsHexDigit) => BoundaryRespected

\* C11, amended: every \u escape of 4 and every \U escape of 8 hex digits
\* written 0-9 or A-F yields the single character with the code point the
\* digits denote when that is at most 0x10FFFF, and raises ParseError
\* (disallowed codepoint) when it is larger; 0x10FFFF succeeds and 0x110000
\* fails.
C11_CodepointBoundary == OneUnicodeEscape(IsUpperHexDigit) => BoundaryRespected

C11_Witness ==
    /\ uq_pc = "returned"
    /\ uq_input = <<BSLASH, 85, 48, 48, 49, 48, 70, 70, 70, 70>>
    /\ uq_result = <<MaxCodepoint>>

C11_WitnessAbove ==
    /\ uq_pc = "raised"
    /\ uq_input = <<BSLASH, 85, 48, 48, 49, 49, 48, 48, 48, 48>>
    /\ uq_err = "Disallowed codepoint"

\* the text between the quotes that open and close the encoded literal
BodyOf(encoded) == SubSeq(encoded, 2, Len(encoded) - 1)

\* C12: parsing the line whose object is t.n3() yields an object equal to
\* t, for every IRI, blank node and literal t; and unquote gives back the
\* lexical string of every literal from what _quote_encode made of it.
C12_RoundTrip ==
    /\ t_pc = "reparsed" =>
          /\ t_back.outcome = "triple"
          /\ Term_eq(t_back.triple[3], t_term)
    /\ (t_pc = "serialized" /\ t_term.kind = "Literal") =>
          unquote(BodyOf(quote_encode(t_term))) =
             [raise |-> "none", val |-> t_term.value]

\* Literal() has been called and has ended
LiteralCalled == t_pc # "idle" /\ t_args.cls = "Literal"

\* the datatype _PythonToXSD derives from a native value
DerivedDatatype(value) ==
    CASE value.type = "int" -> XSD_integer
      [] value.type = "float" -> XSD_float
      [] value.type = "bool" -> XSD_boolean
      [] value.type = "date" -> XSD_date

\* C13: Literal() with a language and a datatype that are both not None
\* raises and makes no literal; a literal that is made never has both a
\* language and a datatype; and a native int, float, bool or date given
\* with a language makes a literal with the derived datatype and no
\* language.
C13_LanguageXorDatatype ==
    LiteralCalled =>
       /\ (t_args.lang # None /\ t_args.datatype # None) =>
             t_pc = "raised" /\ t_term = NoTerm
       /\ t_pc # "raised" =>
             /\ t_term.kind = "Literal"
             /\ t_term.language = None \/ t_term.datatype = None
       /\ (/\ t_pc # "raised"
           /\ t_args.value.type # "str"
           /\ t_args.lang # None) =>
             /\ t_term.language = None
             /\ t_term.datatype = DerivedDatatype(t_args.value)

C13_Witness ==
    /\ t_pc = "raised"
    /\ t_args.cls = "Literal"
    /\ t_args.lang = <<101, 110>>
    /\ t_args.datatype = <<100, 58, 116>>

C13_WitnessNative ==
    /\ t_pc = "constructed"
    /\ t_args.cls = "Literal"
    /\ t_args.value = PyInt(1)
    /\ t_args.lang = <<101, 110>>
    /\ t_term.language = None
    /\ t_term.datatype = XSD_integer

\* C14: two literals compare equal exactly when their lexical strings are
\* equal, their language tags are equal or both absent, and their datatypes
\* are equal or both absent.
C14_LiteralEquality ==
    eq_pc = "compared" =>
       (eq_result <=> /\ eq_self.value = eq_other.value
                      /\ eq_self.language = eq_other.language
                      /\ eq_self.datatype = eq_other.datatype)

\* the threads that hold a serial number they have not made a label of yet
Holding == {t \in Threads : bn_pc[t] \in {"release", "format"}}

\* C15: the labels made by BNode() without a value are pairwise distinct,
\* whatever the interleaving of the threads: each is the prefix followed by
\* the digits of a serial number, and no serial number is handed out twice.
C15_DistinctLabels ==
    /\ \A i, j \in 1..Len(labels) :
          i # j => /\ labels[i].value # labels[j].value
                   /\ labels[i].node_id # labels[j].node_id
    /\ \A i \in 1..Len(labels) :
          /\ labels[i].node_id >= 0
          /\ labels[i].value = prefix \o Digits(labels[i].node_id)
          /\ \A t \in Holding : node_id[t] # labels[i].node_id
    /\ \A t, u \in Holding : t # u => node_id[t] # node_id[u]

\* thread 2 got its serial number after thread 1 and made its label first
C15_Witness ==
    /\ Len(labels) >= 2
    /\ labels[1].thread = 2
    /\ labels[1].node_id = 1
    /\ labels[2].thread = 1
    /\ labels[2].node_id = 0

\* the threads between bNodeLock.acquire() and bNodeLock.release()
Locked == {t \in Threads : bn_pc[t] \in {"next", "yield", "release"}}

\* C16: at most one thread is between acquiring and releasing the lock,
\* a thread owns the lock only there, so the lock is released after every
\* step of the counter, no thread ends in an exception, and with fair
\* scheduling every thread that has called BNode() gets its label and
\* returns.
C16_NeverBlocks ==
    /\ [](Cardinality(Locked) <= 1)
    /\ [](\A t \in Threads : bNodeLock.owner = t <=> t \in Locked)
    /\ [](\A t \in Threads : bn_pc[t] # "raised")
    /\ \A t \in Threads : (bn_pc[t] = "acquire") ~> (bn_pc[t] = "idle")

\* thread 1 waits for the lock that thread 2 holds
C16_Witness ==
    /\ bn_pc[1] = "acquire"
    /\ bNodeLock.owner = 2
    /\ bn_pc[2] = "yield"

\* C17: add with quoted=True raises and fires no TripleAdded notification
\* whenever the context is None, whatever the capability flags, and
\* whenever the store is not formula-aware.
C17_QuotedNeedsContextAndFormulaAwareness ==
    (/\ add_pc = "add"
     /\ add_args.quoted
     /\ add_args.context = PyNone \/ ~flags.formula_aware) =>
        add_raised /\ events = <<>>

\* the entries of qs up to the first one whose context is None
RECURSIVE BeforeNullContext(_)
BeforeNullContext(qs) ==
    IF qs = <<>> \/ Head(qs).c = PyNone THEN <<>>
    ELSE <<Head(qs)>> \o BeforeNullContext(Tail(qs))

\* C18: addN passes the entries to add one by one in the order of the
\* sequence, each one firing exactly one TripleAdded notification with its
\* triple and its context; it fails at the first entry whose context is
\* None, having passed on exactly the entries before it, and add is never
\* called with a None context.
C18_AddNForwardsInOrder ==
    add_pc \in {"addN", "returned", "raised"} =>
       /\ forwarded <= Len(BeforeNullContext(quads))
       /\ events = [i \in 1..forwarded |->
                       TripleAddedEvent(<<quads[i].s, quads[i].p, quads[i].o>>,
                                        quads[i].c)]
       /\ forwarded > 0 =>
             /\ add_args.context # PyNone
             /\ add_args.context = quads[forwarded].c
             /\ add_args.triple =
                   <<quads[forwarded].s, quads[forwarded].p, quads[forwarded].o>>
       /\ add_pc = "raised" =>
             /\ forwarded = Len(BeforeNullContext(quads))
             /\ forwarded < Len(quads)
       /\ add_pc = "returned" => forwarded = Len(quads)

\* addN has passed on one entry and failed at the second
C18_Witness ==
    /\ add_pc = "raised"
    /\ Len(quads) = 2
    /\ forwarded = 1
    /\ Len(events) = 1

\* the positions of the pattern that hold a list
ListPositions(triple) == {i \in 1..3 : triple[i].kind = "list"}

\* the queries for the alternatives alts at position pos, in order
QueriesFor(triple, pos, alts, context) ==
    [i \in 1..Len(alts) |-> <<[triple EXCEPT ![pos] = alts[i]], context>>]

\* the results of the queries qs, one after the other
RECURSIVE ResultsOf(_)
ResultsOf(qs) ==
    IF qs = <<>> THEN <<>>
    ELSE triples(Head(qs)[1], Head(qs)[2]) \o ResultsOf(Tail(qs))

\* triples_choices has asked the queries qs of triples, in this order and
\* no others, and has yielded their results one after the other
DecomposedInto(qs) ==
    /\ IsPrefix(triples_calls, qs)
    /\ IsPrefix(yielded, ResultsOf(qs))
    /\ tc_pc = "done" => triples_calls = qs /\ yielded = ResultsOf(qs)

\* triples_choices runs or has ended on a pattern with one list
OneList ==
    /\ tc_pc \in {"loop", "done"}
    /\ Cardinality(ListPositions(tc_triple)) = 1

ThePosition == CHOOSE i \in ListPositions(tc_triple) : TRUE

C20_ManyListsFail ==
    (/\ tc_pc \notin {"none", "created"}
     /\ Cardinality(ListPositions(tc_triple)) > 1) =>
        /\ tc_pc = "raised"
        /\ yielded = <<>>
        /\ triples_calls = <<>>

\* subject and predicate are lists, and the generator has raised
C20_Witness ==
    /\ tc_pc = "raised"
    /\ ListPositions(tc_triple) = {1, 2}

\* the statement st, given to add, matches the pattern and context of the
\* call of remove, None matching everything
RemoveMatches(call, st) ==
    /\ \A i \in 1..3 : call.triple[i] = PyNone \/ call.triple[i] = st.triple[i]
    /\ call.context = PyNone \/ call.context = st.context

\* the statements a call of remove can have removed: those given to add
\* before it that match
Removable(call) ==
    {call.added[i] : i \in {j \in 1..Len(call.added) :
                               RemoveMatches(call, call.added[j])}}

\* C21: Store.remove dispatches one TripleRemovedEvent per statement it removes,
\* carrying that statement's triple, and none when no statement matches: every
\* event of a call carries the triple of a matching statement the store was
\* given, no two events of a call stand for the same statement, and a call
\* whose pattern matches nothing dispatches nothing.
C21_RemovedEventPerStatement ==
    \A k \in 1..Len(rm_calls) :
       /\ \A i \in 1..Len(rm_calls[k].dispatched) :
             \E st \in Removable(rm_calls[k]) :
                rm_calls[k].dispatched[i].triple = st.triple
       /\ Len(rm_calls[k].dispatched) <= Cardinality(Removable(rm_calls[k]))

\* C22: for any two terms a and b, a == b implies hash(a) == hash(b), also
\* for literals that are equal through their comparison values.
C22_HashEqualityConsistent ==
    (eq_pc = "compared" /\ eq_result) =>
        Term_hash(eq_self) = Term_hash(eq_other)

\* the characters an IRI-ref is said to exclude
ExcludedFromIri(c) == isspace(<<c>>) \/ c \in {LT, GT, QUOTE}

\* C23: every IRI term the parser emits holds no whitespace, no angle
\* bracket and no double quote.
C23_IriCharacters ==
    (iri_pc = "parsed" /\ iri_result.outcome = "triple") =>
        \A k \in 1..3 :
           iri_result.triple[k].kind = "URIRef" =>
              \A i \in 1..Len(iri_result.triple[k].value) :
                 ~ExcludedFromIri(iri_result.triple[k].value[i])

\* the text between '<' and '>' that r_uriref takes at the start of the line
IriText == r_uriref(iri_line).group

\* C24: unescaping applies to literal bodies only: the text between '<' and
\* '>' of an IRI-ref becomes the IRI term's string unchanged, and a backslash
\* sequence in it is not decoded and causes no error.
C24_IriTextUnchanged ==
    (iri_pc = "parsed" /\ Matched(r_uriref(iri_line))) =>
        /\ iri_subj.res = "term"
        /\ iri_subj.term = URI(IriText)

\* not a backslash, not a double quote, not a control character below 0x20
NotExcluded(c) == c # BSLASH /\ c # QUOTE /\ c >= 32

\* the same, and not above 0x7E
PrintableAscii(c) == NotExcluded(c) /\ c <= 126

\* C25 as stated: an iteration of unquote on a string that starts with a
\* character that is not a backslash, a double quote or a control character
\* copies the maximal run of such characters verbatim, also for 0x7F and above.
C25_RunsCopied ==
    [][(uq_pc = "loop" /\ uq_string # <<>> /\ NotExcluded(uq_string[1])) =>
          /\ uq_pc' = "loop"
          /\ uq_result' = uq_result \o Take(uq_string, SpanLen(uq_string, NotExcluded))
          /\ uq_string' = Drop(uq_string, SpanLen(uq_string, NotExcluded))]_vars

\* C25, amended: unquote copies verbatim every maximal run of characters from
\* 0x20 to 0x7E that are not a backslash or a double quote; on a character of
\* 0x7F or above, as on a control character below 0x20, it raises ParseError
\* (illegal literal character) and copies nothing.
C25_AsciiRunsCopied ==
    [][/\ (uq_pc = "loop" /\ uq_string # <<>> /\ PrintableAscii(uq_string[1])) =>
             /\ uq_pc' = "loop"
             /\ uq_result' = uq_result
                               \o Take(uq_string, SpanLen(uq_string, PrintableAscii))
             /\ uq_string' = Drop(uq_string, SpanLen(uq_string, PrintableAscii))
       /\ (/\ uq_pc = "loop" /\ uq_string # <<>>
           /\ (uq_string[1] >= 127 \/ uq_string[1] < 32)) =>
             /\ uq_pc' = "raised"
             /\ uq_err' = "Illegal literal character"
             /\ uq_result' = uq_result]_vars

\* the run "aa" has been copied in one iteration
C25_Witness ==
    /\ uq_pc = "loop"
    /\ uq_input = <<97, 97>>
    /\ uq_string = <<>>
    /\ uq_result = <<97, 97>>

\* unquote has copied "a" and raised on the character 0xE9 after it
C25_WitnessAbove ==
    /\ uq_pc = "raised"
    /\ uq_input = <<97, 233>>
    /\ uq_result = <<97>>
    /\ uq_err = "Illegal literal character"

\* Literal(v) was called with a native int or bool v and nothing else
NativeLiteral ==
    /\ t_pc # "idle"
    /\ t_args.cls = "Literal"
    /\ t_args.value.type \in {"int", "bool"}
    /\ t_args.lang = None
    /\ t_args.datatype = None

\* C26: for a native int or bool v, Literal(v) has the datatype xsd:integer
\* or xsd:boolean and its Python value, which is its comparison value, is v,
\* so that different native values give different comparison values.
C26_NativeRoundTrip ==
    NativeLiteral =>
       /\ t_pc # "raised"
       /\ t_term.datatype = DerivedDatatype(t_args.value)
       /\ toCompareValue(t_term) = t_args.value

\* what parse does with the text when the source gives it in one piece: the
\* lines r_line takes off the buffer go through parseline one after the
\* other, and what is left without a terminator ends the run
RECURSIVE WholeRun(_, _)
WholeRun(buf, got) ==
    IF buf = <<>> THEN [error |-> FALSE, triples |-> got]
    ELSE The({IF ~Matched(m)
              THEN [error |-> isspace(buf), triples |-> got]
              ELSE The({IF r.outcome = "raise"
                        THEN [error |-> TRUE, triples |-> got]
                        ELSE WholeRun(Drop(buf, m.end),
                                      IF r.outcome = "triple"
                                      THEN Append(got, r.triple)
                                      ELSE got) :
                        r \in {parseline(m.group)}}) :
              m \in {r_line(buf)}})

\* C27: the triples the sink gets and whether parse ends with ParseError
\* depend on the text only, not on the chunks the source gives it in: every
\* run ends as the run on the text in one piece does.
C27_ChunkingIndependent ==
    Terminal =>
       [error |-> pc = "error", triples |-> sink.triples]
          = WholeRun(file_input.data, <<>>)

\* a run has ended normally with a triple in the sink after a read that
\* ended between the CR and the LF of a line ending, which gave readline one
\* line more than the text has
C27_Witness ==
    /\ pc = "done"
    /\ sink.length >= 1
    /\ Len(returned) > Len(SplitLines(file_input.data))

\* triples_choices runs or has ended on a pattern whose one list is empty
OneEmptyList == OneList /\ tc_triple[ThePosition].items = <<>>

C29_NoListNoResult ==
    (tc_pc \notin {"none", "created"} /\ ListPositions(tc_triple) = {}) =>
        /\ tc_pc # "raised"
        /\ yielded = <<>>
        /\ triples_calls = <<>>

\* triples_choices has ended on a pattern without a list that statements of
\* the store match
C29_Witness ==
    /\ tc_pc = "done"
    /\ tc_triple = <<NodeA, PropP, ValueX>>
    /\ triples(tc_triple, tc_context) # <<>>
    /\ yielded = <<>>

\* readline is at a point where the source has nothing more to give and the
\* buffer holds no terminated line
NothingMoreToRead ==
    /\ pc = "readline"
    /\ Exhausted
    /\ Truthy(buffer) => ~Matched(r_line(buffer))

\* C30: parse terminates on every finite input and unquote on every string:
\* a parse under way comes to its end, normal or ParseError; once the source
\* has nothing more to give, the readline under way returns or raises at its
\* next read; an unquote under way returns or raises, and every iteration of
\* it that does not raise strictly shortens the remaining string.
C30_Terminates ==
    /\ (pc # "idle") ~> Terminal
    /\ [][NothingMoreToRead => pc' \in {"done", "error"}]_vars
    /\ (uq_pc = "loop") ~> (uq_pc \in {"returned", "raised"})
    /\ [][(uq_pc = "loop" /\ uq_pc' = "loop") =>
             Len(uq_string') < Len(uq_string)]_vars

\* parse has ended after the source was read to its end in several lines
C30_Witness ==
    /\ Terminal
    /\ Exhausted
    /\ Len(returned) >= 2

\* unquote has returned after two iterations
C30_WitnessUnquote ==
    /\ uq_pc = "returned"
    /\ uq_input = <<97, BSLASH, 116>>
    /\ uq_result = <<97, TAB>>

============================================================================
